---- MODULE Spec2Model ----
(***************************************************************************)
(* A model of the crawl engine of SpiderScraper.py (class Spider) and of   *)
(* the pure URL helpers it uses.                                           *)
(*                                                                         *)
(* Strings are modelled as sequences of tokens: the URL                    *)
(*     https://x.test/a/d#top                                              *)
(* is <<"https", ":", "//", "x", ".", "test", "/", "a", "/", "d", "#",     *)
(* "top">>.  Concatenation, prefix, suffix and substring tests of the code *)
(* are the same operations on the token sequences.  The empty string and   *)
(* Python's None are both the empty sequence (the code only ever tests     *)
(* them with "not x").                                                     *)
(***************************************************************************)
EXTENDS Integers, Sequences, FiniteSets, TLC

\* ------------------------------------------------------------------------
\* String helpers (token sequences)
\* ------------------------------------------------------------------------

None == <<>>

\* F(v) with v evaluated once: what "LET x == v IN F(x)" means, in the form
\* in which TLC computes v a single time
With(v, F(_)) == CHOOSE y \in {F(x) : x \in {v}} : TRUE

StartsWith(s, p) == Len(p) <= Len(s) /\ SubSeq(s, 1, Len(p)) = p

EndsWith(s, suf) ==
    Len(suf) <= Len(s) /\ SubSeq(s, Len(s) - Len(suf) + 1, Len(s)) = suf

\* Python's "sub in s"
Contains(s, sub) ==
    \E i \in 0..(Len(s) - Len(sub)) : SubSeq(s, i + 1, i + Len(sub)) = sub

\* index of the first token of s that is in set T, or Len(s) + 1
FirstIn(s, T) ==
    IF \E i \in 1..Len(s) : s[i] \in T
    THEN CHOOSE i \in 1..Len(s) : s[i] \in T /\ \A j \in 1..(i - 1) : s[j] \notin T
    ELSE Len(s) + 1

\* index of the last token of s that is in set T, or 0
LastIn(s, T) ==
    IF \E i \in 1..Len(s) : s[i] \in T
    THEN CHOOSE i \in 1..Len(s) : s[i] \in T /\ \A j \in (i + 1)..Len(s) : s[j] \notin T
    ELSE 0

\* Python's s.rstrip(t) for a one-character t
RStrip(s0, t) ==
    With(s0, LAMBDA s :
    With({x \in {s[i] : i \in 1..Len(s)} : x # t}, LAMBDA keep :
        SubSeq(s, 1, LastIn(s, keep))))

\* Python's s.strip(t) for a one-character t
Strip(s0, t) ==
    With(s0, LAMBDA s :
    With({x \in {s[i] : i \in 1..Len(s)} : x # t}, LAMBDA keep :
        SubSeq(s, FirstIn(s, keep), LastIn(s, keep))))

\* number of tokens of s equal to t
Count(s, t) == Cardinality({i \in 1..Len(s) : s[i] = t})

\* Python's str.lower on one token: the only tokens with upper-case letters
Lower(tok) ==
    CASE tok = "Blog"  -> "blog"
      [] tok = "DRAFT" -> "draft"
      [] tok = "Draft" -> "draft"
      [] tok = "EXAMPLE" -> "example"
      [] tok = "HTML"  -> "html"
      [] tok = "HTTPS" -> "https"
      [] OTHER         -> tok

LowerSeq(s) == [i \in 1..Len(s) |-> Lower(s[i])]

SeqToSet(s) == {s[i] : i \in 1..Len(s)}

NoDup(s) == \A i, j \in 1..Len(s) : s[i] = s[j] => i = j

\* ------------------------------------------------------------------------
\* urllib.parse on token sequences
\* ------------------------------------------------------------------------

ALLOWED_SCHEMES == {"http", "https"}

\* urllib.parse.uses_relative, for the schemes of the model
uses_relative == {"http", "https", "ftp", "file"}

Delims == {":", "//", "/", "#", ".", " "}

\* urlparse(u): scheme, netloc, path, fragment (no query or params modelled)
UrlSplitRest(scheme, rest) ==
    With(IF Len(rest) >= 1 /\ rest[1] = "//"
         THEN [n |-> TRUE, s |-> SubSeq(rest, 2, Len(rest))]
         ELSE [n |-> FALSE, s |-> rest],
      LAMBDA a :
    With(IF a.n THEN FirstIn(a.s, {"/", "#"}) ELSE 1, LAMBDA netEnd :
    With(SubSeq(a.s, netEnd, Len(a.s)), LAMBDA rest2 :
    With(FirstIn(rest2, {"#"}), LAMBDA fragAt :
        [scheme   |-> scheme,
         netloc   |-> SubSeq(a.s, 1, netEnd - 1),
         path     |-> SubSeq(rest2, 1, fragAt - 1),
         fragment |-> SubSeq(rest2, fragAt + 1, Len(rest2))]))))

urlparse(u0) ==
    With(u0, LAMBDA u :
        IF Len(u) >= 2 /\ u[2] = ":" /\ u[1] \notin Delims
        THEN UrlSplitRest(<<Lower(u[1])>>, SubSeq(u, 3, Len(u)))
        ELSE UrlSplitRest(<<>>, u))

\* urlunparse((scheme, netloc, path, '', '', fragment))
urlunparse(scheme, netloc, path, fragment) ==
    (IF scheme # <<>> THEN scheme \o <<":">> ELSE <<>>)
    \o (IF netloc # <<>>
        THEN <<"//">> \o netloc
             \o (IF path # <<>> /\ path[1] # "/" THEN <<"/">> ELSE <<>>) \o path
        ELSE path)
    \o (IF fragment # <<>> THEN <<"#">> \o fragment ELSE <<>>)

\* urljoin(base, url).  Paths with "." or ".." segments are not modelled: no
\* href of the modelled sites has one.
urljoin(base, url) ==
    IF base = <<>> THEN url
    ELSE IF url = <<>> THEN base
    ELSE
      With(<<urlparse(base), urlparse(url)>>, LAMBDA bu :
      With([b |-> bu[1], u |-> bu[2],
            scheme |-> IF bu[2].scheme = <<>> THEN bu[1].scheme ELSE bu[2].scheme],
        LAMBDA v :
          IF v.scheme # v.b.scheme
             \/ (v.scheme # <<>> /\ v.scheme[1] \notin uses_relative)
          THEN url
          ELSE IF v.u.netloc # <<>>
               THEN urlunparse(v.scheme, v.u.netloc, v.u.path, v.u.fragment)
          ELSE IF v.u.path = <<>>
               THEN urlunparse(v.scheme, v.b.netloc, v.b.path, v.u.fragment)
          ELSE IF v.u.path[1] = "/"
               THEN urlunparse(v.scheme, v.b.netloc, v.u.path, v.u.fragment)
          ELSE With(SubSeq(v.b.path, 1, LastIn(v.b.path, {"/"})), LAMBDA dir :
                    urlunparse(v.scheme, v.b.netloc,
                               (IF dir = <<>> THEN <<"/">> ELSE dir) \o v.u.path,
                               v.u.fragment))))

\* same_origin that compares the schemes only
same_origin_SchemeOnly(a, b) ==
    With(<<urlparse(a), urlparse(b)>>, LAMBDA p : p[1].scheme = p[2].scheme)

\* same_origin(a, b)
same_origin(a, b) ==
    With(<<urlparse(a), urlparse(b)>>, LAMBDA p :
        <<p[1].scheme, p[1].netloc>> = <<p[2].scheme, p[2].netloc>>)

\* normalize_link that returns the joined URL with its fragment
normalize_link_KeepsFragment(base_url, href) ==
    IF href = <<>> THEN None
    ELSE With(urljoin(base_url, Strip(href, " ")), LAMBDA abs_url0 :
         With(urlparse(abs_url0), LAMBDA parsed :
             IF parsed.scheme = <<>> \/ parsed.scheme[1] \notin ALLOWED_SCHEMES
             THEN None
             ELSE abs_url0))

\* normalize_link(base_url, href): the absolute URL, or None
normalize_link(base_url, href) ==
    IF href = <<>> THEN None
    ELSE With(urljoin(base_url, Strip(href, " ")), LAMBDA abs_url0 :
         With(urlparse(abs_url0), LAMBDA parsed :
             IF parsed.scheme = <<>> \/ parsed.scheme[1] \notin ALLOWED_SCHEMES
             THEN None
             ELSE SubSeq(abs_url0, 1, FirstIn(abs_url0, {"#"}) - 1)))

\* ------------------------------------------------------------------------
\* The crawled web: what the server answers for each URL (the environment)
\* ------------------------------------------------------------------------

Origin == <<"https", ":", "//", "x", ".", "test">>

X(path) == Origin \o path

Other(path) == <<"https", ":", "//", "other", ".", "test">> \o path

NoPage == [status |-> "fail", title |-> <<>>, links |-> <<>>]

\* "tree": every URL of the origin answers 200 with a page that links to two
\* pages one path segment below it (new URLs) and back to /a: a site with
\* unboundedly many reachable pages.
TreePage(u) ==
    IF ~same_origin(u, Origin) THEN NoPage
    ELSE With(RStrip(urlparse(u).path, "/"), LAMBDA p :
             [status |-> "ok",
              title  |-> IF p = <<>> THEN <<"Home">> ELSE <<p[Len(p)]>>,
              links  |-> <<p \o <<"/", "a">>, p \o <<"/", "b">>, <<"/", "a">>>>])

HomeLinks ==
    << <<"/", "a">>,
       Other(<<"/", "b">>),
       <<"/", "b">>,
       <<"#", "top">>,
       <<"/", "a", "#", "sec">>,
       <<"mailto", ":", "me">>,
       <<>>,
       <<"/">>,
       <<"/", "private", "/", "x">>,
       <<"c">>,
       <<"/", "page", ".", "html">> >>

\* "mesh": a small site with repeated links, links that leave the origin,
\* fragments, a page that always fails (/b), a page without a title (/c) and
\* a missing page (/a/e).
MeshPage(u) ==
    CASE u = X(<<>>) \/ u = X(<<"/">>) \/ u = X(<<"/", "index", ".", "html">>) ->
            [status |-> "ok", title |-> <<"Home">>, links |-> HomeLinks]
      [] u = X(<<"/", "a">>) ->
            [status |-> "ok", title |-> <<"A">>,
             links  |-> << <<"/", "b">>, <<"/", "c">>, <<"d">>,
                           <<"/", "a", "/", "d">>, <<"/">> >>]
      [] u = X(<<"/", "b">>) ->
            [status |-> "fail", title |-> <<"B">>, links |-> << <<"/", "z">> >>]
      [] u = X(<<"/", "c">>) ->
            [status |-> "ok", title |-> <<>>,
             links  |-> << <<"/", "a">>, <<"/", "e", "/", "f", "/", "g">>,
                           X(<<"/", "a">>) >>]
      [] u = X(<<"/", "d">>) ->
            [status |-> "ok", title |-> <<"D">>,
             links  |-> << <<"/", "Blog", "/", "post">>, <<"/", "b">>,
                           <<"/", "a", "/", "d">> >>]
      [] u = X(<<"/", "a", "/", "d">>) ->
            [status |-> "ok", title |-> <<"AD">>, links |-> << <<"e">> >>]
      [] u = X(<<"/", "e", "/", "f", "/", "g">>) ->
            [status |-> "ok", title |-> <<"G">>, links |-> <<>>]
      [] u = X(<<"/", "private", "/", "x">>) ->
            [status |-> "ok", title |-> <<"P">>, links |-> << <<"/", "a">> >>]
      [] u = X(<<"/", "Blog", "/", "post">>) ->
            [status |-> "ok", title |-> <<"Post">>, links |-> <<>>]
      [] u = X(<<"/", "page", ".", "html">>) ->
            [status |-> "ok", title |-> <<" ", "Page", " ">>,
             links  |-> << <<"missing", ".", "html">>, <<"last", ".", "HTML">> >>]
      [] u = X(<<"/", "last", ".", "HTML">>) ->
            [status |-> "ok", title |-> <<"Last">>, links |-> <<>>]
      [] OTHER -> NoPage

\* "e2e": the root page, titled "Home", links to /a and to
\* https://other.test/b; /a has no links
E2EPage(u) ==
    CASE u = X(<<>>) \/ u = X(<<"/">>) ->
            [status |-> "ok", title |-> <<"Home">>,
             links  |-> << <<"/", "a">>, Other(<<"/", "b">>) >>]
      [] u = X(<<"/", "a">>) ->
            [status |-> "ok", title |-> <<"A">>, links |-> <<>>]
      [] u = Other(<<"/", "b">>) ->
            [status |-> "ok", title |-> <<"B">>, links |-> <<>>]
      [] OTHER -> NoPage

\* the page the server holds for URL u
Page(web, u) ==
    CASE web.site = "tree" -> TreePage(u)
      [] web.site = "e2e"  -> E2EPage(u)
      [] OTHER             -> MeshPage(u)

\* robots.txt of the origin as the server answers it: "rules" (200, with
\* Disallow: /private), "missing" (404: RobotFileParser allows all),
\* "forbidden" (401 or 403: RobotFileParser.read() sets disallow_all),
\* "server_error" (5xx: read() returns with nothing read, and can_fetch
\* answers False for a parser that has read nothing) or "error" (no
\* response: read() raises)
RobotsRules == [mode |-> "rules", disallow |-> {<<"/", "private">>}]

RobotsAllowAll == [mode |-> "allow_all", disallow |-> {}]

RobotsDisallowAll == [mode |-> "disallow_all", disallow |-> {}]

RobotsUnread == [mode |-> "unread", disallow |-> {}]

NoParser == [mode |-> "none", disallow |-> {}]

\* ------------------------------------------------------------------------
\* Bounds of the model and constants of the program
\* ------------------------------------------------------------------------

MAX_PAGES == 150

MaxPages == 5

MaxDepth == 2

MaxRetries == 2

\* ------------------------------------------------------------------------
\* class Spider: constructor and pure methods ("self" is the object)
\* ------------------------------------------------------------------------

\* _set_proxy that assigns the proxy and leaves the rotation where it is
_set_proxy_NoRotation(self) ==
    IF self.proxies = <<>> THEN self
    ELSE LET p     == self.proxies[self.current_proxy_index + 1]
             proxy == IF StartsWith(p, <<"http", ":", "//">>)
                         \/ StartsWith(p, <<"https", ":", "//">>)
                      THEN p ELSE <<"http", ":", "//">> \o p
         IN  [self EXCEPT !.session_proxies = proxy]

\* Spider._set_proxy
_set_proxy(self) ==
    IF self.proxies = <<>> THEN self
    ELSE LET p     == self.proxies[self.current_proxy_index + 1]
             proxy == IF StartsWith(p, <<"http", ":", "//">>)
                         \/ StartsWith(p, <<"https", ":", "//">>)
                      THEN p ELSE <<"http", ":", "//">> \o p
         IN  [self EXCEPT !.session_proxies = proxy,
                          !.current_proxy_index =
                              (self.current_proxy_index + 1) % Len(self.proxies)]

\* Spider.__init__ with the arguments of record a
Spider(a) ==
    LET obj == [root                |-> RStrip(a.root_url, "/"),
                max_pages           |-> a.max_pages,
                max_depth           |-> a.max_depth,
                allowed_domains     |-> a.allowed_domains,
                link_filters        |-> a.link_filters,
                max_retries         |-> a.max_retries,
                retry_backoff       |-> a.retry_backoff,
                respect_robots      |-> a.respect_robots,
                proxies             |-> a.proxies,
                current_proxy_index |-> 0,
                include_keywords    |-> a.include_keywords,
                exclude_keywords    |-> a.exclude_keywords,
                session_proxies     |-> <<>>,
                robots_parsers      |-> <<>>,
                seen                |-> {},
                rows                |-> <<>>,
                cancelled           |-> FALSE,
                url_depths          |-> <<>>]
    IN  IF obj.proxies # <<>> THEN _set_proxy(obj) ELSE obj

\* _check_keyword_filters that tests the include keywords first
_check_keyword_filters_IncludeFirst(self, u) ==
    With(LowerSeq(u), LAMBDA url_lower :
        IF self.include_keywords # <<>>
        THEN \E i \in 1..Len(self.include_keywords) :
                 Contains(url_lower, LowerSeq(self.include_keywords[i]))
        ELSE ~ \E i \in 1..Len(self.exclude_keywords) :
                 Contains(url_lower, LowerSeq(self.exclude_keywords[i])))

\* _check_keyword_filters that lets the root through whatever the keywords
_check_keyword_filters_RootExempt(self, u) ==
    With(LowerSeq(u), LAMBDA url_lower :
        IF u = self.root THEN TRUE
        ELSE IF \E i \in 1..Len(self.exclude_keywords) :
               Contains(url_lower, LowerSeq(self.exclude_keywords[i]))
        THEN FALSE
        ELSE IF self.include_keywords # <<>>
             THEN \E i \in 1..Len(self.include_keywords) :
                      Contains(url_lower, LowerSeq(self.include_keywords[i]))
             ELSE TRUE)

\* Spider._check_keyword_filters
_check_keyword_filters(self, u) ==
    With(LowerSeq(u), LAMBDA url_lower :
        IF \E i \in 1..Len(self.exclude_keywords) :
               Contains(url_lower, LowerSeq(self.exclude_keywords[i]))
        THEN FALSE
        ELSE IF self.include_keywords # <<>>
             THEN \E i \in 1..Len(self.include_keywords) :
                      Contains(url_lower, LowerSeq(self.include_keywords[i]))
             ELSE TRUE)

\* _check_domain_allowed that matches an entry as a bare suffix of the host
_check_domain_allowed_BareSuffix(self, u) ==
    IF self.allowed_domains = <<>> THEN TRUE
    ELSE LET domain == LowerSeq(urlparse(u).netloc)
         IN  \E i \in 1..Len(self.allowed_domains) :
               LET allowed == Strip(LowerSeq(self.allowed_domains[i]), " ")
               IN  IF StartsWith(allowed, <<".">>)
                   THEN EndsWith(domain, allowed)
                        \/ domain = SubSeq(allowed, 2, Len(allowed))
                   ELSE EndsWith(domain, allowed)

\* Spider._check_domain_allowed
_check_domain_allowed(self, u) ==
    IF self.allowed_domains = <<>> THEN TRUE
    ELSE LET domain == LowerSeq(urlparse(u).netloc)
         IN  \E i \in 1..Len(self.allowed_domains) :
               LET allowed == Strip(LowerSeq(self.allowed_domains[i]), " ")
               IN  IF StartsWith(allowed, <<".">>)
                   THEN EndsWith(domain, allowed)
                        \/ domain = SubSeq(allowed, 2, Len(allowed))
                   ELSE domain = allowed \/ EndsWith(domain, <<".">> \o allowed)

\* Spider._check_link_filter
_check_link_filter(self, u) ==
    IF self.link_filters = <<>> THEN TRUE
    ELSE LET path == LowerSeq(urlparse(u).path)
         IN  \E i \in 1..Len(self.link_filters) :
               LET f0         == Strip(LowerSeq(self.link_filters[i]), " ")
                   filter_ext == IF StartsWith(f0, <<".">>) THEN f0 ELSE <<".">> \o f0
               IN  EndsWith(path, filter_ext) \/ EndsWith(path, filter_ext \o <<"/">>)

\* LoopCond with the page cap tested by <= (one page too many)
LoopCond_CapOffByOne(self, q) ==
    q # <<>> /\ Len(self.rows) <= self.max_pages /\ ~self.cancelled

\* LoopCond without the test of the queue (q.get() then blocks on an empty queue)
LoopCond_NoEmptyTest(self, q) ==
    Len(self.rows) < self.max_pages /\ ~self.cancelled

\* LoopCond without the test of the cancelled flag
LoopCond_NoCancelTest(self, q) ==
    q # <<>> /\ Len(self.rows) < self.max_pages

\* the loop condition of crawl(): frontier not empty, page cap not reached,
\* not cancelled
LoopCond(self, q) ==
    q # <<>> /\ Len(self.rows) < self.max_pages /\ ~self.cancelled

\* DepthExceeded that already rejects the entries at the limit
DepthExceeded_AtLimit(self, d) == self.max_depth >= 0 /\ d >= self.max_depth

\* DepthExceeded letting one more level through
DepthExceeded_OffByOne(self, d) == self.max_depth >= 0 /\ d > self.max_depth + 1

\* "self.max_depth >= 0 and depth > self.max_depth", for a dequeued entry and
\* for a new link
DepthExceeded(self, d) == self.max_depth >= 0 /\ d > self.max_depth

\* SeenAdd that does not record the URL
SeenAdd_Forgets(self, u) == self.seen

\* self.seen.add(abs_url)
SeenAdd(self, u) == self.seen \cup {u}

\* QPut at the front of the queue (a stack)
QPut_Front(q, entry) == <<entry>> \o q

\* q.put(entry)
QPut(q, entry) == Append(q, entry)

\* WaitTime with the exponent counted from 1
WaitTime_FromOne(self, attempt) == self.retry_backoff * (2 ^ (attempt + 1))

\* wait_time = self.retry_backoff * (2 ** attempt)
WaitTime(self, attempt) == self.retry_backoff * (2 ^ attempt)

\* AfterAttempt where crawl() reports the page before it tests the response
AfterAttempt_CallbackOnFailure(self, ok, attempt) ==
    IF ok THEN "append"
    ELSE IF attempt < self.max_retries THEN "backoff" ELSE "callback"

\* AfterAttempt where the last failure ends crawl() instead of skipping the entry
AfterAttempt_Abort(self, ok, attempt) ==
    IF ok THEN "append"
    ELSE IF attempt < self.max_retries THEN "backoff" ELSE "done"

\* AfterAttempt where the last failure goes on to the inter-request delay
\* instead of continuing with the loop test
AfterAttempt_DelayOnFailure(self, ok, attempt) ==
    IF ok THEN "append"
    ELSE IF attempt < self.max_retries THEN "backoff" ELSE "links"

\* where _fetch_with_retry and crawl() go after one attempt
AfterAttempt(self, ok, attempt) ==
    IF ok THEN "append"
    ELSE IF attempt < self.max_retries THEN "backoff" ELSE "loop"

\* len(path.rstrip('/').split('/'))
PathParts(path) == Count(RStrip(path, "/"), "/") + 1

Max(a, b) == IF a >= b THEN a ELSE b

\* _get_url_depth that counts a memoised URL one level deeper at each later
\* encounter instead of returning the stored depth
_get_url_depth_Bump(self, u) ==
    IF u \in DOMAIN self.url_depths
    THEN [ret |-> self.url_depths[u] + 1,
          url_depths |-> [self.url_depths EXCEPT ![u] = @ + 1]]
    ELSE IF u = self.root THEN [ret |-> 0, url_depths |-> self.url_depths]
    ELSE IF urlparse(self.root).netloc # urlparse(u).netloc
    THEN [ret |-> -1, url_depths |-> self.url_depths]
    ELSE With(Max(0, PathParts(urlparse(u).path) - PathParts(urlparse(self.root).path)),
              LAMBDA depth0 :
                 [ret |-> depth0, url_depths |-> self.url_depths @@ (u :> depth0)])

\* _get_url_depth that counts the empty segment before the leading "/" of
\* the URL's path without discounting that of the root
_get_url_depth_CountsLeading(self, u) ==
    IF u \in DOMAIN self.url_depths
    THEN [ret |-> self.url_depths[u], url_depths |-> self.url_depths]
    ELSE IF u = self.root THEN [ret |-> 0, url_depths |-> self.url_depths]
    ELSE IF urlparse(self.root).netloc # urlparse(u).netloc
    THEN [ret |-> -1, url_depths |-> self.url_depths]
    ELSE With(Max(0, PathParts(urlparse(u).path)), LAMBDA depth0 :
                 [ret |-> depth0, url_depths |-> self.url_depths @@ (u :> depth0)])

\* Spider._get_url_depth: the returned depth and the depth index afterwards
_get_url_depth(self, u) ==
    IF u \in DOMAIN self.url_depths
    THEN [ret |-> self.url_depths[u], url_depths |-> self.url_depths]
    ELSE IF u = self.root THEN [ret |-> 0, url_depths |-> self.url_depths]
    ELSE IF urlparse(self.root).netloc # urlparse(u).netloc
    THEN [ret |-> -1, url_depths |-> self.url_depths]
    ELSE LET depth0 == Max(0, PathParts(urlparse(u).path)
                              - PathParts(urlparse(self.root).path))
         IN  [ret |-> depth0, url_depths |-> self.url_depths @@ (u :> depth0)]

\* the robots.txt URL of u's origin
RobotsUrl(u) ==
    urlparse(u).scheme \o <<":", "//">> \o urlparse(u).netloc \o <<"/", "robots.txt">>

\* RobotFileParser.read() against the modelled server: the parser it leaves,
\* or NoParser when it raises
RobotsRead(robots) ==
    CASE robots = "rules"        -> RobotsRules
      [] robots = "missing"      -> RobotsAllowAll
      [] robots = "forbidden"    -> RobotsDisallowAll
      [] robots = "server_error" -> RobotsUnread
      [] OTHER                   -> NoParser

\* Spider._get_robots_parser: the parser (or NoParser for None) and the cache
\* afterwards
_get_robots_parser(self, robots, u) ==
    IF ~self.respect_robots THEN [rp |-> NoParser, robots_parsers |-> self.robots_parsers]
    ELSE LET robots_url == RobotsUrl(u)
         IN  IF robots_url \notin DOMAIN self.robots_parsers
             THEN LET rp == RobotsRead(robots)
                  IN  IF rp = NoParser
                      THEN [rp |-> NoParser, robots_parsers |-> self.robots_parsers]
                      ELSE [rp |-> rp,
                            robots_parsers |-> self.robots_parsers @@ (robots_url :> rp)]
             ELSE [rp |-> self.robots_parsers[robots_url],
                   robots_parsers |-> self.robots_parsers]

\* RobotFileParser.can_fetch(user_agent, url)
RpCanFetch(rp, u) ==
    LET p    == urlparse(u).path
        path == IF p = <<>> THEN <<"/">> ELSE p
    IN  rp.mode = "allow_all"
        \/ (rp.mode = "rules" /\ \A d \in rp.disallow : ~StartsWith(path, d))

\* Spider._can_fetch: the answer and the cache afterwards
_can_fetch(self, robots, u) ==
    IF ~self.respect_robots THEN [ret |-> TRUE, robots_parsers |-> self.robots_parsers]
    ELSE LET g == _get_robots_parser(self, robots, u)
         IN  [ret |-> IF g.rp = NoParser THEN TRUE ELSE RpCanFetch(g.rp, u),
              robots_parsers |-> g.robots_parsers]

\* ------------------------------------------------------------------------
\* Runs: the arguments a Spider is constructed with and the site it crawls
\* ------------------------------------------------------------------------

BaseArgs ==
    [root_url         |-> X(<<"/">>),
     max_pages        |-> MAX_PAGES,
     max_depth        |-> -1,
     max_retries      |-> 1,
     retry_backoff    |-> 1,
     respect_robots   |-> TRUE,
     allowed_domains  |-> <<>>,
     link_filters     |-> <<>>,
     include_keywords |-> <<>>,
     exclude_keywords |-> <<>>,
     proxies          |-> <<>>]

Depths == {-1} \cup (0..MaxDepth)

\* web.flaky: the URLs whose requests fail or succeed from one attempt to the
\* next (a transient transport error); every other URL answers the same way
\* each time
TreeWeb == [site |-> "tree", robots |-> "missing", flaky |-> {}]

MeshWeb == [site |-> "mesh", robots |-> "rules", flaky |-> {X(<<"/", "c">>)}]

\* the tree site under every page cap and depth limit
TreeRuns ==
    {[web |-> TreeWeb, args |-> [BaseArgs EXCEPT !.max_pages = p, !.max_depth = d]] :
        p \in 1..MaxPages, d \in Depths}
    \cup {[web |-> TreeWeb, args |-> [BaseArgs EXCEPT !.max_depth = d]] : d \in 0..MaxDepth}

\* the mesh site under every depth limit and retry count
MeshRuns ==
    {[web |-> MeshWeb,
      args |-> [BaseArgs EXCEPT !.max_depth = d, !.max_retries = n,
                                !.retry_backoff = 1 + 2 * (n % 2)]] :
        d \in Depths, n \in 0..MaxRetries}

\* the mesh site with each filter, robots answer and proxy list
VariantRuns ==
    {[web |-> MeshWeb, args |-> [BaseArgs EXCEPT !.max_pages = 3]],
     [web |-> MeshWeb, args |-> [BaseArgs EXCEPT !.respect_robots = FALSE]],
     [web |-> [MeshWeb EXCEPT !.robots = "error"], args |-> BaseArgs],
     [web |-> [MeshWeb EXCEPT !.robots = "forbidden"], args |-> BaseArgs],
     [web |-> [MeshWeb EXCEPT !.robots = "server_error"], args |-> BaseArgs],
     [web |-> MeshWeb, args |-> [BaseArgs EXCEPT !.root_url = X(<<"/", "private", "/", "x">>)]],
     [web |-> MeshWeb, args |-> [BaseArgs EXCEPT !.allowed_domains = << <<"other", ".", "test">> >>]],
     [web |-> MeshWeb, args |-> [BaseArgs EXCEPT !.allowed_domains = << <<".", "x", ".", "test">> >>]],
     [web |-> MeshWeb, args |-> [BaseArgs EXCEPT !.allowed_domains = << <<"x", ".", "test">>,
                                                                        <<"other", ".", "test">> >>]],
     [web |-> MeshWeb, args |-> [BaseArgs EXCEPT !.link_filters = << <<"HTML">> >>]],
     [web |-> MeshWeb, args |-> [BaseArgs EXCEPT !.link_filters = << <<"HTML">> >>,
                                                 !.root_url = X(<<"/", "index", ".", "html">>)]],
     [web |-> MeshWeb, args |-> [BaseArgs EXCEPT !.include_keywords = << <<"Blog">> >>]],
     [web |-> MeshWeb, args |-> [BaseArgs EXCEPT !.include_keywords = << <<"test">> >>,
                                                 !.exclude_keywords = << <<"a">> >>]],
     [web |-> MeshWeb, args |-> [BaseArgs EXCEPT !.root_url = X(<<"/", "a">>), !.max_depth = 0]],
     [web |-> MeshWeb,
      args |-> [BaseArgs EXCEPT !.proxies = << <<"p1", ":", "8080">>,
                                               <<"http", ":", "//", "p2">> >>]],
     [web |-> MeshWeb,
      args |-> [BaseArgs EXCEPT !.proxies = << <<"https", ":", "//", "p0">> >>]],
     [web |-> MeshWeb,
      args |-> [BaseArgs EXCEPT !.max_retries = 2,
                                !.proxies = << <<"p1", ":", "8080">>,
                                               <<"http", ":", "//", "p2">>,
                                               <<"p3">> >>]]}

E2EWeb == [site |-> "e2e", robots |-> "missing", flaky |-> {}]

\* root https://x.test/ with depth limit 1 and no other filter
E2ERuns == {[web |-> E2EWeb, args |-> [BaseArgs EXCEPT !.max_depth = 1]]}

Runs == TreeRuns \cup MeshRuns \cup VariantRuns \cup E2ERuns

\* the same runs on a server whose every answer is fixed by the URL
FixedRuns == {[r EXCEPT !.web.flaky = {}] : r \in Runs}

\* session.get(url) followed by raise_for_status(): the outcomes (TRUE: a 2xx
\* response) the server can give for one attempt
Outcomes(web, u) ==
    IF Page(web, u).status # "ok" THEN {FALSE}
    ELSE IF u \in web.flaky THEN BOOLEAN
    ELSE {TRUE}

\* ------------------------------------------------------------------------
\* State
\* ------------------------------------------------------------------------

VARIABLES
    web,          \* the server the run crawls
    args,         \* the arguments the Spider was constructed with
    self,         \* the Spider object
    q,            \* crawl(): the frontier queue of <<url, depth>>
    pc,           \* crawl(): where the crawl thread is
    url, depth,   \* crawl(): the dequeued entry
    attempt,      \* _fetch_with_retry(): the loop variable
    resp,         \* crawl(): the page fetched (r / soup)
    links,        \* crawl(): the hrefs of soup.select("a[href]") still to visit
    abs_url,      \* crawl(): the last normalized link
    new_depth,    \* crawl(): the last _get_url_depth result
    var_status,   \* App.var_status
    phase,        \* "single": one run; "ref", "second": two runs on one site
    refRows,      \* the rows of the uncancelled reference run
    enqLog,       \* history: every URL put on the frontier, in order
    deqLog,       \* history: every URL taken from the frontier, in order
    fetchLog,     \* history: every entry that reached the fetch step, with its proxy
    requests,     \* history: session.get calls made for the current entry
    sleeps,       \* history: backoff sleeps made for the current entry
    callbacks,    \* history: progress_cb invocations
    delays,       \* history: number of inter-request delays slept
    robots_reads, \* history: number of robots.txt requests
    skipLog,      \* history: every entry skipped after its dequeue, with the reason
    atCancel,     \* history: the run at the moment cancel() was called
    call,         \* a single call of a function or method: its arguments and result
    app           \* the App object: its spider, rows, preview queue and UI thread

vars == <<web, args, self, q, pc, url, depth, attempt, resp, links, abs_url,
          new_depth, var_status, phase, refRows, enqLog, deqLog, fetchLog,
          requests, sleeps, callbacks, delays, robots_reads, skipLog, atCancel,
          call, app>>

envVars == <<web, args, phase, refRows, call, app>>

localVars == <<url, depth, attempt, resp, links, abs_url, new_depth>>

logVars == <<enqLog, deqLog, fetchLog, requests, sleeps, callbacks, delays,
             robots_reads>>

histVars == <<logVars, skipLog>>

\* the skip log after the step that leaves the current entry for nextPc
Skipped(nextPc, why) ==
    IF nextPc = "loop" THEN Append(skipLog, [url |-> url, why |-> why]) ELSE skipLog

NotCancelled == [pc |-> "", rows |-> 0, deq |-> 0]

\* no single call is being made
NoCall == [fn |-> "", url |-> <<>>, href |-> <<>>, allowed_domains |-> <<>>,
           include_keywords |-> <<>>, exclude_keywords |-> <<>>,
           returned |-> FALSE, ret |-> <<>>]

\* the Spider of a later Create Sitemap and its crawl thread, of which only
\* the records, the cancelled flag and the end are followed
NoLater == [alive |-> FALSE, cancelled |-> FALSE, rows |-> <<>>, reported |-> FALSE]

\* App.__init__: no spider, no rows, an empty preview queue, the drain timer
\* scheduled.  spider is "none", "this" (the Spider whose crawl thread the
\* model follows step by step) or "later"; reports is the history of the
\* statuses set by the followed run's worker; last_root is the root of the
\* newest Spider; dialog is the message box of the last Create Sitemap.
IdleApp == [spider |-> "none", rows |-> <<>>, queue_preview |-> <<>>,
            ui |-> "idle", drain_scheduled |-> TRUE, reports |-> <<>>,
            last_root |-> <<>>, dialog |-> "", later |-> NoLater]

\* the state right after App.on_create_sitemap constructed the Spider for
\* run r and started the crawl thread
Started(r, ph) ==
    /\ web = r.web
    /\ args = r.args
    /\ self = Spider(r.args)
    /\ q = <<>>
    /\ pc = "start"
    /\ url = None /\ depth = 0 /\ attempt = 0 /\ resp = NoPage /\ links = <<>>
    /\ abs_url = None /\ new_depth = 0
    /\ var_status = "Crawling..."
    /\ phase = ph
    /\ refRows = <<>>
    /\ enqLog = <<>> /\ deqLog = <<>> /\ fetchLog = <<>>
    /\ requests = 0 /\ sleeps = <<>> /\ callbacks = <<>>
    /\ delays = 0 /\ robots_reads = 0 /\ skipLog = <<>>
    /\ atCancel = NotCancelled
    /\ call = NoCall
    /\ app = [IdleApp EXCEPT !.spider = "this", !.last_root = r.args.root_url]

Init == \E r \in Runs : Started(r, "single")

\* ------------------------------------------------------------------------
\* Spider.crawl, one action per step of the crawl thread
\* ------------------------------------------------------------------------

\* q.put((self.root, 0)); self.seen.add(self.root); self.url_depths[self.root] = 0
CrawlStart ==
    /\ pc = "start"
    /\ q' = QPut(q, <<self.root, 0>>)
    /\ self' = [self EXCEPT !.seen = SeenAdd(self, self.root),
                            !.url_depths = (self.root :> 0) @@ @]
    /\ enqLog' = Append(enqLog, self.root)
    /\ pc' = "loop"
    /\ UNCHANGED <<envVars, localVars, var_status, deqLog, fetchLog, requests,
                   sleeps, callbacks, delays, robots_reads, skipLog, atCancel>>

\* while not q.empty() and len(self.rows) < self.max_pages and not self.cancelled
LoopTest ==
    /\ pc = "loop"
    /\ pc' = IF LoopCond(self, q) THEN "get" ELSE "done"
    /\ UNCHANGED <<envVars, self, q, localVars, var_status, histVars, atCancel>>

\* url, depth = q.get(), which blocks while the queue is empty
Dequeue ==
    /\ pc = "get"
    /\ q # <<>>
    /\ url' = Head(q)[1]
    /\ depth' = Head(q)[2]
    /\ q' = Tail(q)
    /\ deqLog' = Append(deqLog, Head(q)[1])
    /\ requests' = 0
    /\ sleeps' = <<>>
    /\ pc' = "depth"
    /\ UNCHANGED <<envVars, self, attempt, resp, links, abs_url, new_depth,
                   var_status, enqLog, fetchLog, callbacks, delays, robots_reads,
                   skipLog, atCancel>>

\* the dequeue-time checks with robots.txt consulted last
AfterCheck_RobotsLast(check, ok) ==
    IF ~ok THEN "loop"
    ELSE CASE check = "depth"   -> "domain"
           [] check = "domain"  -> "filter"
           [] check = "filter"  -> "keyword"
           [] check = "keyword" -> "robots"
           [] check = "robots"  -> "proxy"

\* where crawl() goes after a dequeue-time check: on failure "continue",
\* else the next statement, in the order of the code: depth limit,
\* robots.txt, domain restrictions, link filters, keyword filters, proxy
AfterCheck(check, ok) ==
    IF ~ok THEN "loop"
    ELSE CASE check = "depth"   -> "robots"
           [] check = "robots"  -> "domain"
           [] check = "domain"  -> "filter"
           [] check = "filter"  -> "keyword"
           [] check = "keyword" -> "proxy"

\* if self.max_depth >= 0 and depth > self.max_depth: continue
CheckDepth ==
    /\ pc = "depth"
    /\ pc' = AfterCheck("depth", ~DepthExceeded(self, depth))
    /\ skipLog' = Skipped(pc', "depth")
    /\ UNCHANGED <<envVars, self, q, localVars, var_status, logVars, atCancel>>

\* if not self._can_fetch(url): continue
CheckRobots ==
    /\ pc = "robots"
    /\ \E c \in {_can_fetch(self, web.robots, url)} :
         /\ self' = [self EXCEPT !.robots_parsers = c.robots_parsers]
         /\ pc' = AfterCheck("robots", c.ret)
    /\ skipLog' = Skipped(pc', "robots")
    /\ robots_reads' = IF self.respect_robots
                          /\ RobotsUrl(url) \notin DOMAIN self.robots_parsers
                       THEN robots_reads + 1 ELSE robots_reads
    /\ UNCHANGED <<envVars, q, localVars, var_status, enqLog, deqLog, fetchLog,
                   requests, sleeps, callbacks, delays, atCancel>>

\* if not self._check_domain_allowed(url): continue
CheckDomain ==
    /\ pc = "domain"
    /\ pc' = AfterCheck("domain", _check_domain_allowed(self, url))
    /\ skipLog' = Skipped(pc', "domain")
    /\ UNCHANGED <<envVars, self, q, localVars, var_status, logVars, atCancel>>

\* if not self._check_link_filter(url): continue
CheckLinkFilter ==
    /\ pc = "filter"
    /\ pc' = AfterCheck("filter", _check_link_filter(self, url))
    /\ skipLog' = Skipped(pc', "filter")
    /\ UNCHANGED <<envVars, self, q, localVars, var_status, logVars, atCancel>>

\* if not self._check_keyword_filters(url): continue
CheckKeywords ==
    /\ pc = "keyword"
    /\ pc' = AfterCheck("keyword", _check_keyword_filters(self, url))
    /\ skipLog' = Skipped(pc', "keyword")
    /\ UNCHANGED <<envVars, self, q, localVars, var_status, logVars, atCancel>>

\* if self.proxies: self._set_proxy(); then _fetch_with_retry is entered
RotateProxy ==
    /\ pc = "proxy"
    /\ self' = IF self.proxies # <<>> THEN _set_proxy(self) ELSE self
    /\ fetchLog' = Append(fetchLog, [url |-> url, proxy |-> self'.session_proxies])
    /\ attempt' = 0
    /\ pc' = "fetch"
    /\ UNCHANGED <<envVars, q, url, depth, resp, links, abs_url, new_depth,
                   var_status, enqLog, deqLog, requests, sleeps, callbacks,
                   delays, robots_reads, skipLog, atCancel>>

\* _fetch_with_retry: one attempt.  A 2xx response is returned to crawl(); a
\* failure goes to the backoff sleep when attempts remain and otherwise
\* returns None, on which crawl() continues with the next entry.
FetchAttempt ==
    /\ pc = "fetch"
    /\ \E ok \in Outcomes(web, url) :
         /\ resp' = IF ok THEN Page(web, url) ELSE NoPage
         /\ pc' = AfterAttempt(self, ok, attempt)
    /\ requests' = requests + 1
    /\ skipLog' = Skipped(pc', "fetch")
    /\ UNCHANGED <<envVars, self, q, url, depth, attempt, links, abs_url,
                   new_depth, var_status, enqLog, deqLog, fetchLog, sleeps,
                   callbacks, delays, robots_reads, atCancel>>

\* wait_time = self.retry_backoff * (2 ** attempt); time.sleep(wait_time)
Backoff ==
    /\ pc = "backoff"
    /\ sleeps' = Append(sleeps, WaitTime(self, attempt))
    /\ attempt' = attempt + 1
    /\ pc' = "fetch"
    /\ UNCHANGED <<envVars, self, q, url, depth, resp, links, abs_url, new_depth,
                   var_status, enqLog, deqLog, fetchLog, requests, callbacks,
                   delays, robots_reads, skipLog, atCancel>>

\* title of the page, or the URL when it has none
Title(page, u) == IF page.title # <<>> THEN Strip(page.title, " ") ELSE u

\* first path segment of the URL
Category(u) ==
    LET path == Strip(urlparse(u).path, "/")
    IN  SubSeq(path, 1, FirstIn(path, {"/"}) - 1)

\* self.rows.append(Row(title=title, category=category, url=url))
AppendRow ==
    /\ pc = "append"
    /\ self' = [self EXCEPT !.rows = Append(@, [title    |-> Title(resp, url),
                                                 category |-> Category(url),
                                                 url      |-> url])]
    /\ links' = resp.links
    /\ pc' = "callback"
    /\ UNCHANGED <<envVars, q, url, depth, attempt, resp, abs_url, new_depth,
                   var_status, histVars, atCancel>>

\* progress_cb(title, html): self.queue_preview.put((title, html))
Callback ==
    /\ pc = "callback"
    /\ callbacks' = Append(callbacks, [title |-> Title(resp, url), url |-> url])
    /\ app' = [app EXCEPT !.queue_preview =
                   Append(@, [title |-> Title(resp, url), url |-> url])]
    /\ pc' = "links"
    /\ UNCHANGED <<web, args, phase, refRows, call, self, q, localVars, var_status, enqLog, deqLog,
                   fetchLog, requests, sleeps, delays, robots_reads, skipLog, atCancel>>

\* one iteration of "for a in soup.select('a[href]')"
QueueLink ==
    /\ pc = "links"
    /\ links # <<>>
    /\ \E a \in {normalize_link(url, Head(links))} :
         /\ abs_url' = a
         /\ IF a = None \/ ~same_origin(self.root, a) \/ a \in self.seen
            THEN UNCHANGED <<self, q, enqLog, new_depth>>
            ELSE \E g \in {_get_url_depth(self, a)} :
                   /\ new_depth' = g.ret
                   /\ IF DepthExceeded(self, g.ret) \/ ~_check_keyword_filters(self, a)
                      THEN /\ self' = [self EXCEPT !.url_depths = g.url_depths]
                           /\ UNCHANGED <<q, enqLog>>
                      ELSE /\ self' = [self EXCEPT !.url_depths = g.url_depths,
                                                   !.seen = SeenAdd(self, a)]
                           /\ q' = QPut(q, <<a, g.ret>>)
                           /\ enqLog' = Append(enqLog, a)
    /\ links' = Tail(links)
    /\ pc' = "links"
    /\ UNCHANGED <<envVars, url, depth, attempt, resp, var_status, deqLog,
                   fetchLog, requests, sleeps, callbacks, delays, robots_reads,
                   skipLog, atCancel>>

\* delay = self._get_delay(); time.sleep(delay)
Delay ==
    /\ pc = "links"
    /\ links = <<>>
    /\ delays' = delays + 1
    /\ pc' = "loop"
    /\ UNCHANGED <<envVars, self, q, localVars, var_status, enqLog, deqLog,
                   fetchLog, requests, sleeps, callbacks, robots_reads, skipLog, atCancel>>

\* the Spider that App.spider references has its cancelled flag set
SpiderCancelled ==
    \/ app.spider = "this" /\ self.cancelled
    \/ app.spider = "later" /\ app.later.cancelled

\* App.on_create_sitemap.run, after crawl() returned: the callback scheduled
\* with after(0, ...) runs on the UI thread and sets var_status to "Stopped"
\* if the spider the App references at that moment is cancelled, else to
\* "Done"
ReportStatus ==
    /\ pc = "done"
    /\ app.reports = <<>>
    /\ app.ui = "idle"
    /\ var_status' = IF SpiderCancelled THEN "Stopped" ELSE "Done"
    /\ app' = [app EXCEPT !.reports =
                   <<[status |-> var_status', cancelled |-> self.cancelled]>>]
    /\ UNCHANGED <<web, args, phase, refRows, call, self, q, pc, localVars,
                   histVars, atCancel>>

\* Cancel that also discards the records collected so far
Cancel_DropsRows ==
    /\ phase # "ref"
    /\ ~self.cancelled
    /\ self' = [self EXCEPT !.cancelled = TRUE, !.rows = <<>>]
    /\ atCancel' = [pc |-> pc, rows |-> Len(self.rows), deq |-> Len(deqLog)]
    /\ UNCHANGED <<envVars, q, pc, localVars, var_status, histVars>>

\* Spider.cancel, called from another thread at any moment
Cancel ==
    /\ phase # "ref"
    /\ ~self.cancelled
    /\ self' = [self EXCEPT !.cancelled = TRUE]
    /\ atCancel' = [pc |-> pc, rows |-> Len(self.rows), deq |-> Len(deqLog)]
    /\ UNCHANGED <<envVars, q, pc, localVars, var_status, histVars>>

CrawlStep ==
    \/ CrawlStart
    \/ LoopTest
    \/ Dequeue
    \/ CheckDepth
    \/ CheckRobots
    \/ CheckDomain
    \/ CheckLinkFilter
    \/ CheckKeywords
    \/ RotateProxy
    \/ FetchAttempt
    \/ Backoff
    \/ AppendRow
    \/ Callback
    \/ QueueLink
    \/ Delay

Next == CrawlStep \/ ReportStatus \/ Cancel

Spec == Init /\ [][Next]_vars

\* The crawl thread runs: each of its steps is eventually taken (every fetch
\* and every sleep returns), and Tk's main loop runs the scheduled status
\* callback.
FairSpec == Spec /\ WF_vars(CrawlStep) /\ WF_vars(ReportStatus)

\* ------------------------------------------------------------------------
\* Two runs on one site: an uncancelled run, then a second Spider
\* constructed with the same arguments, which may be cancelled
\* ------------------------------------------------------------------------

\* App.on_create_sitemap once the first run has returned: a new Spider with
\* the same settings and a new crawl thread
Restart ==
    /\ phase = "ref"
    /\ pc = "done"
    /\ phase' = "second"
    /\ refRows' = self.rows
    /\ self' = Spider(args)
    /\ q' = <<>>
    /\ pc' = "start"
    /\ url' = None /\ depth' = 0 /\ attempt' = 0 /\ resp' = NoPage /\ links' = <<>>
    /\ abs_url' = None /\ new_depth' = 0
    /\ var_status' = "Crawling..."
    /\ enqLog' = <<>> /\ deqLog' = <<>> /\ fetchLog' = <<>>
    /\ requests' = 0 /\ sleeps' = <<>> /\ callbacks' = <<>>
    /\ delays' = 0 /\ robots_reads' = 0 /\ skipLog' = <<>>
    /\ atCancel' = NotCancelled
    /\ app' = [IdleApp EXCEPT !.spider = "this", !.last_root = args.root_url]
    /\ UNCHANGED <<web, args, call>>

InitTwoRuns == \E r \in FixedRuns : Started(r, "ref")

NextTwoRuns == Next \/ Restart

SpecTwoRuns == InitTwoRuns /\ [][NextTwoRuns]_vars

\* ------------------------------------------------------------------------
\* Single calls of the functions and of the Spider's predicates, on arguments
\* drawn from small sets
\* ------------------------------------------------------------------------

BaseUrls ==
    {X(<<>>), X(<<"/">>), X(<<"/", "a">>), X(<<"/", "a", "/">>),
     X(<<"/", "a", "/", "d">>), X(<<"/", "page", ".", "html">>),
     <<"http", ":", "//", "x", ".", "test", "/", "a">>}

Hrefs ==
    SeqToSet(HomeLinks)
    \cup {<<"#">>, <<"#", "a", "/", "b">>, <<" ", "#", "top", " ">>,
          <<"d", "#", "frag">>, <<"/", "a", "#">>, <<" ">>, <<" ", "/", "a", " ">>,
          X(<<"/", "c", "#", "x">>), X(<<>>),
          <<"http", ":", "//", "x", ".", "test", "/", "b">>,
          <<"HTTPS", ":", "//", "x", ".", "test", "/", "up", "#", "f">>,
          <<"//", "other", ".", "test", "/", "c">>,
          <<"ftp", ":", "//", "x", ".", "test", "/", "f">>,
          <<"javascript", ":", "void(0)">>, <<"tel", ":", "123">>,
          <<"file", ":", "/", "etc">>}

NormalizeCalls ==
    {[NoCall EXCEPT !.fn = "normalize_link", !.url = b, !.href = h] :
        b \in BaseUrls, h \in Hrefs}

Https(host, path) == <<"https", ":", "//">> \o host \o path

DomainUrls ==
    {Https(<<"example", ".", "com">>, <<"/">>),
     Https(<<"sub", ".", "example", ".", "com">>, <<"/", "p">>),
     Https(<<"a", ".", "sub", ".", "example", ".", "com">>, <<>>),
     Https(<<"not", "example", ".", "com">>, <<"/">>),
     Https(<<"EXAMPLE", ".", "com">>, <<"/", "a">>),
     Https(<<"example", ".", "com", ".", "x", ".", "test">>, <<"/">>),
     Https(<<"com">>, <<"/">>),
     X(<<"/", "a">>),
     Other(<<"/", "b">>)}

AllowLists ==
    {<<>>,
     << <<".", "example", ".", "com">> >>,
     << <<"example", ".", "com">> >>,
     << <<"x", ".", "test">>, <<".", "example", ".", "com">> >>,
     << <<" ", "EXAMPLE", ".", "com", " ">> >>,
     << <<"other", ".", "test">>, <<"sub", ".", "example", ".", "com">> >>,
     << <<"com">> >>,
     << <<".", "test">> >>}

DomainCalls ==
    {[NoCall EXCEPT !.fn = "_check_domain_allowed", !.url = u, !.allowed_domains = l] :
        u \in DomainUrls, l \in AllowLists}

Site(path) == <<"https", ":", "//", "site">> \o path

KeywordUrls ==
    {Site(<<"/", "blog", "/", "draft", "-", "1">>),
     Site(<<"/", "blog", "/", "post", "-", "1">>),
     Site(<<"/", "about">>),
     Site(<<"/", "Blog", "/", "Draft", "-", "2">>),
     Site(<<"/", "Blog", "/", "post">>),
     Site(<<"/", "cata", "logue", "/", "x">>),
     Site(<<"/", "draft">>),
     Site(<<>>)}

IncludeLists ==
    {<<>>, << <<"blog">> >>, << <<"Blog">> >>, << <<"news">>, <<"about">> >>,
     << <<"logue">> >>, << <<"blog", "/", "post">> >>}

ExcludeLists == {<<>>, << <<"draft">> >>, << <<"DRAFT">>, <<"about">> >>, << <<"site">> >>}

KeywordCalls ==
    {[NoCall EXCEPT !.fn = "_check_keyword_filters", !.url = u,
                    !.include_keywords = i, !.exclude_keywords = x] :
        u \in KeywordUrls, i \in IncludeLists, x \in ExcludeLists}

\* the arguments a Spider is constructed with for a single call of one of its
\* predicates
CallArgs(c) ==
    [BaseArgs EXCEPT !.allowed_domains = c.allowed_domains,
                     !.include_keywords = c.include_keywords,
                     !.exclude_keywords = c.exclude_keywords]

\* nothing but the single call happens: no crawl thread is started
Calling(c) ==
    /\ web = MeshWeb
    /\ args = CallArgs(c)
    /\ self = Spider(CallArgs(c))
    /\ q = <<>>
    /\ pc = "idle"
    /\ url = None /\ depth = 0 /\ attempt = 0 /\ resp = NoPage /\ links = <<>>
    /\ abs_url = None /\ new_depth = 0
    /\ var_status = "Ready"
    /\ phase = "call"
    /\ refRows = <<>>
    /\ enqLog = <<>> /\ deqLog = <<>> /\ fetchLog = <<>>
    /\ requests = 0 /\ sleeps = <<>> /\ callbacks = <<>>
    /\ delays = 0 /\ robots_reads = 0 /\ skipLog = <<>>
    /\ atCancel = NotCancelled
    /\ call = c
    /\ app = IdleApp

Calls == NormalizeCalls \cup DomainCalls \cup KeywordCalls

InitCalls == \E c \in Calls : Calling(c)

callLocals == <<web, args, self, q, pc, url, depth, attempt, resp, links, abs_url,
                new_depth, var_status, phase, refRows, enqLog, deqLog, fetchLog,
                requests, sleeps, callbacks, delays, robots_reads, skipLog, atCancel,
                app>>

\* abs_url = normalize_link(base_url, href)
CallNormalizeLink ==
    /\ call.fn = "normalize_link"
    /\ ~call.returned
    /\ call' = [call EXCEPT !.returned = TRUE, !.ret = normalize_link(call.url, call.href)]
    /\ UNCHANGED callLocals

\* self._check_domain_allowed(url)
CallCheckDomainAllowed ==
    /\ call.fn = "_check_domain_allowed"
    /\ ~call.returned
    /\ call' = [call EXCEPT !.returned = TRUE, !.ret = _check_domain_allowed(self, call.url)]
    /\ UNCHANGED callLocals

\* self._check_keyword_filters(url)
CallCheckKeywordFilters ==
    /\ call.fn = "_check_keyword_filters"
    /\ ~call.returned
    /\ call' = [call EXCEPT !.returned = TRUE, !.ret = _check_keyword_filters(self, call.url)]
    /\ UNCHANGED callLocals

NextCalls == CallNormalizeLink \/ CallCheckDomainAllowed \/ CallCheckKeywordFilters

SpecCalls == InitCalls /\ [][NextCalls]_vars

\* ------------------------------------------------------------------------
\* The App: Create Sitemap, Clear, the preview drain and the status line
\* ------------------------------------------------------------------------

\* records a later crawl thread appends while the model follows the first one
MaxLaterRows == 1

\* what the user can have typed in the root URL field: nothing, blanks, a
\* host without scheme, another scheme, a scheme without host, and URLs of
\* the modelled site with and without surrounding blanks
RootTexts ==
    {<<>>,
     <<" ", " ">>,
     <<"x", ".", "test">>,
     <<"ftp", ":", "//", "x", ".", "test", "/">>,
     <<"https", ":", "//">>,
     <<"https", ":", "/", "a">>,
     <<"mailto", ":", "me">>,
     X(<<"/">>),
     <<" ">> \o X(<<"/">>) \o <<" ">>}

\* the site the App is pointed at (its page /a fails or answers from one
\* attempt to the next), and the depth limit of its settings
AppWebs == {[E2EWeb EXCEPT !.flaky = {X(<<"/", "a">>)}]}

AppDepths == {1}

\* p = urlparse(root); not (p.scheme not in ALLOWED_SCHEMES or not p.netloc)
ValidRoot_AnyHost(root) ==
    With(urlparse(root), LAMBDA p :
        p.scheme # <<>> /\ p.scheme[1] \in ALLOWED_SCHEMES)

ValidRoot(root) ==
    With(urlparse(root), LAMBDA p :
        /\ p.scheme # <<>>
        /\ p.scheme[1] \in ALLOWED_SCHEMES
        /\ p.netloc # <<>>)

\* the App before the first Create Sitemap
InitApp ==
    /\ web = E2EWeb
    /\ args = BaseArgs
    /\ self = Spider(BaseArgs)
    /\ q = <<>>
    /\ pc = "idle"
    /\ url = None /\ depth = 0 /\ attempt = 0 /\ resp = NoPage /\ links = <<>>
    /\ abs_url = None /\ new_depth = 0
    /\ var_status = "Ready"
    /\ phase = "app"
    /\ refRows = <<>>
    /\ enqLog = <<>> /\ deqLog = <<>> /\ fetchLog = <<>>
    /\ requests = 0 /\ sleeps = <<>> /\ callbacks = <<>>
    /\ delays = 0 /\ robots_reads = 0 /\ skipLog = <<>>
    /\ atCancel = NotCancelled
    /\ call = NoCall
    /\ app = IdleApp

crawlVars == <<web, args, self, q, pc, localVars, histVars, atCancel>>

\* App.on_create_sitemap, root field holding an empty or invalid text: a
\* message box is shown and the handler returns
RejectRoot(root) ==
    /\ root = <<>> \/ ~ValidRoot(root)
    /\ app' = [app EXCEPT !.dialog = IF root = <<>> THEN "warning" ELSE "error"]
    /\ UNCHANGED <<crawlVars, var_status>>

\* App.on_create_sitemap, valid root, on site w with depth limit d in the
\* settings: the App's rows are reset, a Spider is constructed and stored in
\* self.spider, the status becomes "Crawling..." and a crawl thread is
\* started.  The first such thread is followed step by step, a second one
\* is the later thread.
StartCrawl(root, w, d) ==
    /\ root # <<>>
    /\ ValidRoot(root)
    /\ \/ /\ app.spider = "none"
          /\ web' = w
          /\ args' = [BaseArgs EXCEPT !.root_url = root, !.max_depth = d]
          /\ self' = Spider(args')
          /\ q' = <<>>
          /\ pc' = "start"
          /\ url' = None /\ depth' = 0 /\ attempt' = 0 /\ resp' = NoPage
          /\ links' = <<>> /\ abs_url' = None /\ new_depth' = 0
          /\ enqLog' = <<>> /\ deqLog' = <<>> /\ fetchLog' = <<>>
          /\ requests' = 0 /\ sleeps' = <<>> /\ callbacks' = <<>>
          /\ delays' = 0 /\ robots_reads' = 0 /\ skipLog' = <<>>
          /\ atCancel' = NotCancelled
          /\ var_status' = "Crawling..."
          /\ app' = [app EXCEPT !.spider = "this", !.rows = <<>>,
                                !.last_root = root, !.dialog = ""]
       \/ /\ app.spider = "this"
          /\ var_status' = "Crawling..."
          /\ app' = [app EXCEPT !.spider = "later", !.rows = <<>>,
                                !.last_root = root, !.dialog = "",
                                !.later = [NoLater EXCEPT !.alive = TRUE]]
          /\ UNCHANGED crawlVars

\* App.on_create_sitemap: root = self.var_root.get().strip()
on_create_sitemap ==
    /\ app.ui = "idle"
    /\ \E text \in RootTexts :
       \E root \in {Strip(text, " ")} :
           \/ RejectRoot(root)
           \/ \E w \in AppWebs, d \in AppDepths : StartCrawl(root, w, d)
    /\ UNCHANGED <<phase, refRows, call>>

\* App.on_clear: cancels the spider the App references, empties the App's
\* rows and sets the status to "Ready"
on_clear ==
    /\ app.ui = "idle"
    /\ self' = IF app.spider = "this" THEN [self EXCEPT !.cancelled = TRUE] ELSE self
    /\ atCancel' = IF app.spider = "this" /\ ~self.cancelled
                   THEN [pc |-> pc, rows |-> Len(self.rows), deq |-> Len(deqLog)]
                   ELSE atCancel
    /\ app' = [app EXCEPT !.rows = <<>>,
                          !.later.cancelled = (@ \/ app.spider = "later")]
    /\ var_status' = "Ready"
    /\ UNCHANGED <<web, args, phase, refRows, call, q, pc, localVars, histVars>>

\* App._drain_preview_queue, called by the 75 ms timer with items waiting
DrainStart ==
    /\ app.ui = "idle"
    /\ app.drain_scheduled
    /\ app.queue_preview # <<>>
    /\ app' = [app EXCEPT !.ui = "draining", !.drain_scheduled = FALSE]
    /\ UNCHANGED <<crawlVars, var_status, phase, refRows, call>>

\* the rows of the spider the App references
SpiderRows == IF app.spider = "this" THEN self.rows ELSE app.later.rows

\* one turn of the drain loop: get_nowait(), then, if self.spider is set,
\* row = self.spider.rows[-1] and self.rows.append(row).  With no row in the
\* spider the IndexError leaves the callback before it reschedules itself.
DrainOne ==
    /\ app.ui = "draining"
    /\ app.queue_preview # <<>>
    /\ \E rows \in {SpiderRows} :
         app' = IF app.spider = "none"
                THEN [app EXCEPT !.queue_preview = Tail(@)]
                ELSE IF rows = <<>>
                THEN [app EXCEPT !.queue_preview = Tail(@), !.ui = "idle"]
                ELSE [app EXCEPT !.queue_preview = Tail(@),
                                 !.rows = Append(@, rows[Len(rows)])]
    /\ UNCHANGED <<crawlVars, var_status, phase, refRows, call>>

\* queue.Empty ends the loop; self.after(75, self._drain_preview_queue)
DrainEnd ==
    /\ app.ui = "draining"
    /\ app.queue_preview = <<>>
    /\ app' = [app EXCEPT !.ui = "idle", !.drain_scheduled = TRUE]
    /\ UNCHANGED <<crawlVars, var_status, phase, refRows, call>>

\* the later thread: self.rows.append(Row(...)) and progress_cb(title, html)
LaterRecord ==
    /\ app.later.alive
    /\ Len(app.later.rows) < MaxLaterRows
    /\ \E row \in {[title |-> <<"later">>, url |-> app.last_root]} :
         app' = [app EXCEPT !.later.rows = Append(@, row),
                            !.queue_preview = Append(@, row)]
    /\ UNCHANGED <<crawlVars, var_status, phase, refRows, call>>

\* the later thread: crawl() returned, the status callback is scheduled
LaterReturns ==
    /\ app.later.alive
    /\ app' = [app EXCEPT !.later.alive = FALSE]
    /\ UNCHANGED <<crawlVars, var_status, phase, refRows, call>>

\* the status callback of the later thread
LaterReports ==
    /\ app.spider = "later"
    /\ ~app.later.alive
    /\ ~app.later.reported
    /\ app.ui = "idle"
    /\ var_status' = IF SpiderCancelled THEN "Stopped" ELSE "Done"
    /\ app' = [app EXCEPT !.later.reported = TRUE]
    /\ UNCHANGED <<crawlVars, phase, refRows, call>>

NextApp ==
    \/ on_create_sitemap
    \/ on_clear
    \/ CrawlStep
    \/ ReportStatus
    \/ DrainStart
    \/ DrainOne
    \/ DrainEnd
    \/ LaterRecord
    \/ LaterReturns
    \/ LaterReports

SpecApp == InitApp /\ [][NextApp]_vars

\* ------------------------------------------------------------------------
\* Properties
\* ------------------------------------------------------------------------

IsPrefix(s, t) == Len(s) <= Len(t) /\ s = SubSeq(t, 1, Len(s))

\* position of the first occurrence of x in s (0: none)
Pos(s, x) == IF \E i \in 1..Len(s) : s[i] = x
             THEN CHOOSE i \in 1..Len(s) : s[i] = x /\ \A j \in 1..(i - 1) : s[j] # x
             ELSE 0

QueueUrls == [i \in 1..Len(q) |-> q[i][1]]

RowUrls == [i \in 1..Len(self.rows) |-> self.rows[i].url]

\* a step that put a URL on the frontier
Enqueues == enqLog' # enqLog

\* a step of the link loop that examined one href
LinkStep == pc = "links" /\ links # <<>> /\ links' = Tail(links)

\* the crawl thread holds a dequeued entry that is neither skipped nor recorded yet
InFlight == pc \in {"depth", "robots", "domain", "filter", "keyword", "proxy",
                    "fetch", "backoff", "append"}

\* _fetch_with_retry has returned None for the current entry
FetchGaveUp == requests > 0 /\ resp = NoPage /\ pc \notin {"fetch", "backoff"}

\* C1: every URL is put on the frontier at most once; a link is enqueued only
\* if it is not in the visited set and is added to the visited set in the same
\* step; the visited set never shrinks, so every URL on the frontier or in a
\* record is in the visited set.
C1_EnqueuedOnce ==
    /\ [](/\ NoDup(enqLog)
          /\ SeqToSet(enqLog) \subseteq self.seen
          /\ SeqToSet(QueueUrls) \subseteq self.seen
          /\ SeqToSet(RowUrls) \subseteq self.seen)
    /\ [][/\ self.seen \subseteq self'.seen
          /\ Enqueues =>
               /\ Len(enqLog') = Len(enqLog) + 1
               /\ IsPrefix(enqLog, enqLog')
               /\ enqLog'[Len(enqLog')] \notin self.seen
               /\ enqLog'[Len(enqLog')] \in self'.seen
               /\ Len(q') = Len(q) + 1
               /\ q'[Len(q')][1] = enqLog'[Len(enqLog')]]_vars

\* a link to a URL that was enqueued by an earlier page is being passed over
C1_Witness ==
    /\ pc = "links"
    /\ Len(self.rows) >= 2
    /\ abs_url \in SeqToSet(enqLog)
    /\ abs_url # self.root
    /\ enqLog[Len(enqLog)] # abs_url
    /\ Len(enqLog) >= 3

\* the site where every page links to new pages of the origin and every fetch
\* succeeds, crawled without a depth limit
InfinitelyLinking == web.site = "tree" /\ self.max_depth = -1

\* C2: the number of records never exceeds max_pages, and on the infinitely
\* linking site an uncancelled run ends with exactly max_pages records (5 for
\* a page cap of 5).
C2_PageCap ==
    /\ Len(self.rows) <= self.max_pages
    /\ (pc = "done" /\ InfinitelyLinking /\ ~self.cancelled)
          => Len(self.rows) = self.max_pages

C2_Witness ==
    /\ pc = "done"
    /\ InfinitelyLinking
    /\ ~self.cancelled
    /\ self.max_pages = 5
    /\ Len(self.rows) = 5
    /\ q # <<>>

\* C3: every run eventually reaches the terminal status Done or Stopped, on
\* the finite site and on the infinitely linking site with a finite page cap,
\* with or without a cancellation.
C3_Terminates == <>(var_status \in {"Done", "Stopped"})

\* the unbounded site was stopped by the page cap, without cancellation
C3_Witness ==
    /\ var_status = "Done"
    /\ InfinitelyLinking
    /\ ~self.cancelled
    /\ Len(self.rows) = self.max_pages
    /\ q # <<>>

\* cancel() was called while crawl() was running
CancelledRunning == self.cancelled /\ atCancel.pc \notin {"", "done"}

\* C4 as stated: once the flag is set no further entry is dequeued, and at
\* most one more record is appended.
C4_NoDequeueAfterCancel ==
    CancelledRunning =>
        /\ Len(deqLog) = atCancel.deq
        /\ Len(self.rows) <= atCancel.rows + 1

\* C4 (amended): once the flag is set the loop condition never passes again,
\* so only the entry whose loop test had already passed when the flag was set
\* is still dequeued (at most one); the entry in flight completes normally,
\* with all its retries and its record; at most one more record is appended,
\* and the run then ends.
C4_CancelStopsLoop ==
    /\ [](CancelledRunning =>
            /\ Len(deqLog) <= atCancel.deq + (IF atCancel.pc = "get" THEN 1 ELSE 0)
            /\ Len(self.rows) <= atCancel.rows + 1
            /\ (atCancel.pc \in {"start", "loop", "callback", "links"}
                   => Len(self.rows) = atCancel.rows)
            /\ (FetchGaveUp => requests = self.max_retries + 1))
    /\ [][(self.cancelled /\ pc = "loop") => pc' = "done"]_vars
    /\ [][(self.cancelled /\ pc = "append")
             => (pc' = "callback" /\ Len(self'.rows) = Len(self.rows) + 1)]_vars
    /\ (CancelledRunning ~> pc = "done")

\* the flag was set during a fetch with retries; the entry in flight was
\* retried, fetched and recorded, and the run ended with entries left
C4_Witness ==
    /\ self.cancelled
    /\ atCancel.pc = "fetch"
    /\ pc = "done"
    /\ requests >= 2
    /\ Len(self.rows) = atCancel.rows + 1
    /\ Len(deqLog) = atCancel.deq
    /\ q # <<>>

\* C5 as stated: the records of a run cancelled while running are a strict
\* prefix of the records of the uncancelled run (here for an uncancelled run
\* that produced records).
C5_StrictPrefix ==
    (phase = "second" /\ pc = "done" /\ CancelledRunning /\ refRows # <<>>) =>
        /\ IsPrefix(self.rows, refRows)
        /\ self.rows # refRows

\* C5 (amended): on a fixed site and configuration the records of a run
\* cancelled at any point are a prefix of the records of the uncancelled run,
\* the whole sequence when the flag is set during or after the last entry.
C5_Prefix == phase = "second" => IsPrefix(self.rows, refRows)

C5_Witness ==
    /\ phase = "second"
    /\ pc = "done"
    /\ CancelledRunning
    /\ Len(self.rows) >= 2
    /\ Len(self.rows) < Len(refRows)

\* C6: a URL whose every attempt fails is requested exactly max_retries + 1
\* times, with a sleep of retry_backoff * 2^i after failed attempt i
\* (i = 0..max_retries-1) and none after the last; crawl() then skips the
\* URL without a record and goes on with the loop.
C6_RetryBackoff ==
    /\ [](/\ FetchGaveUp =>
               /\ requests = self.max_retries + 1
               /\ sleeps = [i \in 1..self.max_retries |->
                               self.retry_backoff * (2 ^ (i - 1))]
               /\ \A i \in 1..Len(self.rows) : self.rows[i].url # url
          /\ pc = "fetch" => (requests = attempt /\ Len(sleeps) = attempt)
          /\ pc = "backoff" => (requests = attempt + 1 /\ Len(sleeps) = attempt))
    /\ [][(pc = "fetch" /\ requests' # requests /\ resp' = NoPage /\ pc' # "backoff") =>
              /\ pc' = "loop"
              /\ attempt = self.max_retries
              /\ self' = self
              /\ q' = q]_vars

\* max_retries 2, backoff 1: the third request has failed after sleeps of 1
\* and 2, and the crawl goes on with the entries left on the frontier
C6_Witness ==
    /\ self.max_retries = 2
    /\ self.retry_backoff = 1
    /\ FetchGaveUp
    /\ pc = "get"
    /\ requests = 3
    /\ sleeps = <<1, 2>>
    /\ self.rows # <<>>
    /\ url \notin SeqToSet(RowUrls)

\* a step that skips the dequeued entry
SkipStep == pc \in {"depth", "robots", "domain", "filter", "keyword", "fetch"}
            /\ pc' = "loop"

\* C7: a fetch failure, a filter rejection or a robots block never ends the
\* run: it consumes the one dequeued entry, appends no record, enqueues no
\* link and leaves the visited set unchanged, and the loop goes on; crawl()
\* leaves the loop only from the loop test, with the frontier empty, the page
\* cap reached or the cancelled flag set.
C7_SkipsAreNotFatal ==
    /\ [](/\ Len(deqLog) = Len(skipLog) + Len(self.rows) + (IF InFlight THEN 1 ELSE 0)
          /\ \A i \in 1..Len(skipLog) :
                /\ skipLog[i].url \notin SeqToSet(RowUrls)
                /\ skipLog[i].url \in SeqToSet(deqLog)
                /\ skipLog[i].url \notin SeqToSet(QueueUrls))
    /\ [][SkipStep =>
              /\ self'.rows = self.rows
              /\ self'.seen = self.seen
              /\ q' = q
              /\ enqLog' = enqLog
              /\ deqLog' = deqLog]_vars
    /\ [][(pc' = "done" /\ pc # "done") =>
              /\ pc = "loop"
              /\ (q = <<>> \/ Len(self.rows) >= self.max_pages \/ self.cancelled)]_vars

\* a robots block, a filter rejection and a fetch failure have each skipped
\* an entry, and the run went on to record a later page
C7_Witness ==
    /\ {"robots", "filter", "fetch"} \subseteq {skipLog[i].why : i \in 1..Len(skipLog)}
    /\ pc = "callback"
    /\ ~self.cancelled
    /\ Pos(deqLog, url) > Pos(deqLog, skipLog[Len(skipLog)].url)

\* C8: the frontier is first-in-first-out: entries are dequeued in the order
\* they were enqueued, the record order is a subsequence of the enqueue
\* order, and the root comes first.
C8_Fifo ==
    /\ IsPrefix(deqLog, enqLog)
    /\ QueueUrls = SubSeq(enqLog, Len(deqLog) + 1, Len(enqLog))
    /\ \A i, j \in 1..Len(self.rows) :
          i < j => /\ Pos(enqLog, self.rows[i].url) > 0
                   /\ Pos(enqLog, self.rows[i].url) < Pos(enqLog, self.rows[j].url)
    /\ (enqLog # <<>> => enqLog[1] = self.root)
    /\ (self.rows # <<>> => self.rows[1].url = self.root)

\* three records with a skipped entry in between, and entries of two pages
\* waiting on the frontier
C8_Witness ==
    /\ Len(self.rows) >= 3
    /\ Len(q) >= 2
    /\ \E i \in 1..Len(skipLog) :
          /\ Pos(enqLog, skipLog[i].url) > Pos(enqLog, self.rows[2].url)
          /\ Pos(enqLog, skipLog[i].url) < Pos(enqLog, self.rows[3].url)

\* C9: the depth index maps the root to 0 throughout the run; an entry of the
\* depth index never changes; a later _get_url_depth call for a URL that has
\* an entry returns that entry, whatever page the URL is found on; the depth
\* carried by a frontier entry is the entry of the index.
C9_DepthMemo ==
    /\ [](/\ pc # "start" =>
               (self.root \in DOMAIN self.url_depths /\ self.url_depths[self.root] = 0)
          /\ \A i \in 1..Len(q) :
               q[i][1] \in DOMAIN self.url_depths /\ q[i][2] = self.url_depths[q[i][1]]
          /\ InFlight => depth = self.url_depths[url])
    /\ [][\A u \in DOMAIN self.url_depths :
              u \in DOMAIN self'.url_depths /\ self'.url_depths[u] = self.url_depths[u]]_vars
    /\ [][(/\ LinkStep
           /\ abs_url' # None
           /\ same_origin(self.root, abs_url')
           /\ abs_url' \notin self.seen
           /\ abs_url' \in DOMAIN self.url_depths)
             => new_depth' = self.url_depths[abs_url']]_vars

\* _get_url_depth has just answered from the index for a URL first met on an
\* earlier page
C9_Witness ==
    /\ pc = "links"
    /\ abs_url # None
    /\ abs_url \notin self.seen
    /\ abs_url \in DOMAIN self.url_depths
    /\ new_depth = self.url_depths[abs_url]
    /\ \E i \in 1..(Len(self.rows) - 1) :
          \E j \in 1..Len(Page(web, self.rows[i].url).links) :
             normalize_link(self.rows[i].url, Page(web, self.rows[i].url).links[j]) = abs_url

\* C10: with max_depth >= 0 no URL deeper than max_depth is enqueued, fetched
\* or recorded, and a dequeued entry deeper than max_depth is skipped before
\* any robots lookup or fetch; with max_depth = -1 no URL is rejected for its
\* depth.
C10_DepthLimit ==
    /\ [](/\ self.max_depth >= 0 =>
               /\ \A i \in 1..Len(q) : q[i][2] <= self.max_depth
               /\ \A u \in SeqToSet(enqLog) \cup SeqToSet(RowUrls)
                           \cup {fetchLog[i].url : i \in 1..Len(fetchLog)} :
                     u \in DOMAIN self.url_depths /\ self.url_depths[u] <= self.max_depth
               /\ (InFlight /\ pc # "depth") => depth <= self.max_depth
          /\ self.max_depth = -1 =>
               \A i \in 1..Len(skipLog) : skipLog[i].why # "depth")
    /\ [][(pc = "depth" /\ self.max_depth >= 0 /\ depth > self.max_depth) =>
              /\ pc' \in {"depth", "loop"}
              /\ robots_reads' = robots_reads
              /\ fetchLog' = fetchLog
              /\ requests' = requests]_vars
    /\ [][(/\ LinkStep
           /\ self.max_depth = -1
           /\ abs_url' # None
           /\ same_origin(self.root, abs_url')
           /\ abs_url' \notin self.seen
           /\ _check_keyword_filters(self, abs_url'))
             => (Enqueues /\ abs_url' \in self'.seen)]_vars

\* a link deeper than max_depth has just been passed over
C10_Witness ==
    /\ pc = "links"
    /\ self.max_depth >= 0
    /\ abs_url # None
    /\ abs_url \notin self.seen
    /\ abs_url \in DOMAIN self.url_depths
    /\ new_depth > self.max_depth
    /\ self.url_depths[abs_url] > self.max_depth

\* normalize_link has returned
Normalized == call.fn = "normalize_link" /\ call.returned

\* C13: for every base URL and href, normalize_link returns None or a URL
\* whose scheme is http or https and which holds no '#'.
C13_HttpNoFragment ==
    Normalized =>
        \/ call.ret = None
        \/ /\ Len(call.ret) >= 3
           /\ Lower(call.ret[1]) \in {"http", "https"}
           /\ call.ret[2] = ":"
           /\ "#" \notin SeqToSet(call.ret)

\* an href with a fragment was resolved and its fragment dropped
C13_Witness ==
    /\ Normalized
    /\ call.url = X(<<"/", "a", "/", "d">>)
    /\ call.href = <<"d", "#", "frag">>
    /\ call.ret = X(<<"/", "a", "/", "d">>)

\* C14: normalize_link returns None for an href that is empty or that
\* consists only of a fragment ('#...').
C14_RejectsEmptyAndFragment ==
    (Normalized /\ (call.href = <<>> \/ Head(call.href) = "#")) => call.ret = None

\* the host of URL u, in lower case
HostOf(u) ==
    LET rest == SubSeq(u, 4, Len(u))
    IN  LowerSeq(SubSeq(rest, 1, FirstIn(rest, {"/", "#"}) - 1))

\* the allow-list entries as the Spider compares them: lower case, blanks
\* around them removed
Entries(l) == {Strip(LowerSeq(l[i]), " ") : i \in 1..Len(l)}

\* C15: _check_domain_allowed accepts a URL iff the allow-list is empty, or
\* the host equals an entry, or ends with '.' + an entry, or, for an entry
\* with a leading dot, ends with the entry or equals the entry without its
\* dot; [".example.com"] accepts sub.example.com and example.com and rejects
\* notexample.com.
C15_DomainAllowList ==
    (call.fn = "_check_domain_allowed" /\ call.returned) =>
        /\ call.ret <=>
             \/ call.allowed_domains = <<>>
             \/ \E e \in Entries(call.allowed_domains) :
                   \/ HostOf(call.url) = e
                   \/ EndsWith(HostOf(call.url), <<".">> \o e)
                   \/ /\ e # <<>>
                      /\ Head(e) = "."
                      /\ \/ EndsWith(HostOf(call.url), e)
                         \/ HostOf(call.url) = Tail(e)
        /\ (call.allowed_domains = << <<".", "example", ".", "com">> >> =>
              /\ HostOf(call.url) \in {<<"sub", ".", "example", ".", "com">>,
                                       <<"example", ".", "com">>} => call.ret
              /\ HostOf(call.url) = <<"not", "example", ".", "com">> => ~call.ret)

\* [".example.com"] has rejected notexample.com
C15_Witness ==
    /\ call.fn = "_check_domain_allowed"
    /\ call.returned
    /\ call.allowed_domains = << <<".", "example", ".", "com">> >>
    /\ call.url = Https(<<"not", "example", ".", "com">>, <<"/">>)
    /\ call.ret = FALSE

\* keyword k occurs in URL u, whatever the case of the letters
Mentions(u, k) ==
    \E i \in 1..(Len(u) - Len(k) + 1) :
        \A j \in 1..Len(k) : Lower(u[i + j - 1]) = Lower(k[j])

KeywordChecked == call.fn = "_check_keyword_filters" /\ call.returned

\* C16: exclusion has precedence over inclusion: a URL that contains an
\* exclude keyword (in any case) is rejected even if it contains an include
\* keyword; otherwise it is accepted iff there are no include keywords or one
\* of them occurs in it.  include=[blog], exclude=[draft]: /blog/draft-1
\* rejected, /blog/post-1 accepted, /about rejected.
C16_ExcludeWins ==
    KeywordChecked =>
        /\ call.ret <=>
             /\ \A i \in 1..Len(call.exclude_keywords) :
                   ~Mentions(call.url, call.exclude_keywords[i])
             /\ \/ call.include_keywords = <<>>
                \/ \E i \in 1..Len(call.include_keywords) :
                      Mentions(call.url, call.include_keywords[i])
        /\ (call.include_keywords = << <<"blog">> >>
            /\ call.exclude_keywords = << <<"draft">> >>) =>
              /\ call.url = Site(<<"/", "blog", "/", "draft", "-", "1">>) => ~call.ret
              /\ call.url = Site(<<"/", "blog", "/", "post", "-", "1">>) => call.ret
              /\ call.url = Site(<<"/", "about">>) => ~call.ret

\* include=[blog], exclude=[draft] has rejected /blog/draft-1
C16_Witness ==
    /\ KeywordChecked
    /\ call.include_keywords = << <<"blog">> >>
    /\ call.exclude_keywords = << <<"draft">> >>
    /\ call.url = Site(<<"/", "blog", "/", "draft", "-", "1">>)
    /\ call.ret = FALSE

\* (scheme, host) of an absolute URL
OriginOf(u) == <<Lower(u[1]), HostOf(u)>>

FetchedUrls == {fetchLog[i].url : i \in 1..Len(fetchLog)}

\* C11: every URL enqueued, fetched or recorded has the (scheme, host) of the
\* root; a link to another origin is dropped at link extraction whatever the
\* domain allow-list contains.
C11_SameOrigin ==
    /\ [](\A u \in SeqToSet(enqLog) \cup SeqToSet(QueueUrls) \cup FetchedUrls
                   \cup SeqToSet(RowUrls) \cup self.seen :
             OriginOf(u) = OriginOf(self.root))
    /\ [][(LinkStep /\ abs_url' # None /\ OriginOf(abs_url') # OriginOf(self.root))
             => (~Enqueues /\ q' = q /\ self'.seen = self.seen)]_vars

\* a link to other.test has just been dropped although the allow-list names
\* other.test
C11_Witness ==
    /\ pc = "links"
    /\ abs_url = Other(<<"/", "b">>)
    /\ \E i \in 1..Len(self.allowed_domains) :
          self.allowed_domains[i] = <<"other", ".", "test">>
    /\ self.rows # <<>>
    /\ abs_url \notin self.seen
    /\ abs_url \notin SeqToSet(enqLog)

\* the run of C12: the e2e site from root https://x.test/ with depth limit 1
E2E == web.site = "e2e" /\ args.root_url = X(<<"/">>) /\ self.max_depth = 1

\* C12 as stated: the two records are for https://x.test/ and
\* https://x.test/a, in that order.
C12_RecordsWithSlash ==
    (E2E /\ pc = "done" /\ ~self.cancelled) =>
        RowUrls = <<X(<<"/">>), X(<<"/", "a">>)>>

\* C12 (amended): the run produces exactly 2 records, for https://x.test (the
\* root as the Spider stores it, without its trailing slash; title "Home",
\* depth 0) and https://x.test/a (depth 1), in that order, and
\* https://other.test/b is never enqueued or fetched.
C12_EndToEnd ==
    E2E =>
        /\ (pc = "done" /\ ~self.cancelled) =>
              /\ RowUrls = <<X(<<>>), X(<<"/", "a">>)>>
              /\ self.rows[1].title = <<"Home">>
              /\ self.url_depths[X(<<>>)] = 0
              /\ self.url_depths[X(<<"/", "a">>)] = 1
              /\ enqLog = RowUrls
              /\ FetchedUrls = SeqToSet(RowUrls)
        /\ Other(<<"/", "b">>) \notin SeqToSet(enqLog) \cup FetchedUrls \cup self.seen
        /\ Len(self.rows) <= 2

C12_Witness ==
    /\ E2E
    /\ pc = "done"
    /\ ~self.cancelled
    /\ Len(self.rows) = 2
    /\ abs_url = Other(<<"/", "b">>)

\* the request for robots.txt fails: no response, or an HTTP error other
\* than "not found"
RobotsFetchFails == web.robots \in {"error", "forbidden", "server_error"}

\* C17: when fetching robots.txt fails, _can_fetch returns true and nothing
\* is placed in the robots cache, so each URL checked attempts the fetch
\* again; a robots failure never blocks a URL.
C17_RobotsFailureAllows ==
    (RobotsFetchFails /\ self.respect_robots) =>
        /\ self.robots_parsers = <<>>
        /\ \A i \in 1..Len(skipLog) : skipLog[i].why # "robots"
        /\ robots_reads = Len(deqLog) - (IF pc \in {"depth", "robots"} THEN 1 ELSE 0)

\* C19: the per-page callback is invoked exactly once for each record and
\* for nothing else, in record order: the i-th invocation comes after the
\* i-th record is appended and before the (i+1)-th, carries that record's
\* title, and no callback is made for a skipped or failed URL.
C19_CallbackPerRecord ==
    /\ [](/\ Len(callbacks) = Len(self.rows) - (IF pc = "callback" THEN 1 ELSE 0)
          /\ \A i \in 1..Len(callbacks) :
                /\ callbacks[i].title = self.rows[i].title
                /\ callbacks[i].url = self.rows[i].url
                /\ \A j \in 1..Len(skipLog) : skipLog[j].url # callbacks[i].url)
    /\ [][callbacks' # callbacks =>
              /\ callbacks' = Append(callbacks, callbacks'[Len(callbacks')])
              /\ Len(callbacks') = Len(self.rows)
              /\ self'.rows = self.rows]_vars
    /\ [][Len(self'.rows) > Len(self.rows) =>
              (Len(callbacks) = Len(self.rows) /\ callbacks' = callbacks)]_vars

\* the callback for the fifth record has been made, with the page's title,
\* after entries were skipped for a failed fetch and by robots.txt
C19_Witness ==
    /\ pc = "links"
    /\ Len(callbacks) = 5
    /\ callbacks[5] = [title |-> <<"Page">>, url |-> X(<<"/", "page", ".", "html">>)]
    /\ {"fetch", "robots"} \subseteq {skipLog[i].why : i \in 1..Len(skipLog)}

\* an http or https URL with a host, read off the text itself
HttpWithHost(u) ==
    /\ Len(u) >= 4
    /\ u[1] \in {"http", "https"}
    /\ u[2] = ":"
    /\ u[3] = "//"
    /\ u[4] \notin {"/", "#", " ", ":", "//"}

\* a Create Sitemap that ended in a message box
Rejected == app'.dialog # "" /\ app'.dialog # app.dialog

\* C20: a root whose scheme is not http or https or whose host is missing is
\* rejected before any crawl starts: every Spider the App constructs has an
\* http(s) root with a host, and a rejected Create Sitemap constructs no
\* Spider, starts no thread, issues no fetch and leaves the App's rows, its
\* current spider and the status as they were; before the first accepted
\* root there is no crawl and no fetch.
C20_InvalidRootRejected ==
    [][/\ app'.spider # app.spider => HttpWithHost(app'.last_root)
       /\ Rejected => /\ UNCHANGED <<crawlVars, var_status>>
                      /\ app' = [app EXCEPT !.dialog = app'.dialog]
       /\ app.spider = "none" => pc = "idle" /\ fetchLog = <<>>]_vars

\* a finished and drained crawl whose rows and spider the App still holds,
\* after a Create Sitemap with an invalid root was answered by the error box
C20_Witness ==
    /\ app.dialog = "error"
    /\ app.spider = "this"
    /\ pc = "done"
    /\ Len(app.rows) = 2
    /\ var_status = "Done"

\* C18: the status goes Ready -> Crawling... -> exactly one terminal state,
\* and the terminal state the worker of a run reports is "Stopped" iff
\* cancellation was requested for that run, "Done" otherwise.
C18_StoppedIffCancelled ==
    /\ Len(app.reports) <= 1
    /\ \A i \in 1..Len(app.reports) :
           app.reports[i].status = (IF app.reports[i].cancelled
                                    THEN "Stopped" ELSE "Done")

\* the dequeued entry passes the robots check as the spider stands
RobotsAllows(u) == _can_fetch(self, web.robots, u).ret

\* the robots.txt of the entry's origin has been looked up: where it can be
\* read at all, its parser is in the cache
RobotsLookedUp(u) ==
    (self.respect_robots /\ RobotsRead(web.robots) # NoParser)
        => RobotsUrl(u) \in DOMAIN self.robots_parsers

\* the scope filters pass the entry
ScopeAllows(u) ==
    /\ _check_domain_allowed(self, u)
    /\ _check_link_filter(self, u)
    /\ _check_keyword_filters(self, u)

\* C21 as stated: the robots lookup happens only for an entry that has
\* already passed the depth, domain, path/extension and keyword checks.
C21_RobotsLast ==
    pc = "robots" => (~DepthExceeded(self, depth) /\ ScopeAllows(url))

\* C21, amended: the checks run in the order depth, robots, domain
\* allow-list, path/extension filter, keyword filter.  The robots lookup
\* happens for an entry that has passed the depth check only; an entry at or
\* past the domain check, or skipped by the domain, path/extension or keyword
\* check, has had its robots.txt looked up and was allowed by it; each later
\* check runs only for an entry that passed the ones before it, and only an
\* entry that passed all five is fetched.
C21_RobotsSecond ==
    /\ pc = "robots" => ~DepthExceeded(self, depth)
    /\ pc \in {"domain", "filter", "keyword", "proxy", "fetch", "backoff", "append"}
          => (~DepthExceeded(self, depth) /\ RobotsLookedUp(url) /\ RobotsAllows(url))
    /\ pc \in {"filter", "keyword", "proxy", "fetch", "backoff", "append"}
          => _check_domain_allowed(self, url)
    /\ pc \in {"keyword", "proxy", "fetch", "backoff", "append"}
          => _check_link_filter(self, url)
    /\ pc \in {"proxy", "fetch", "backoff", "append"}
          => _check_keyword_filters(self, url)
    /\ \A i \in 1..Len(skipLog) :
          skipLog[i].why \in {"domain", "filter", "keyword"}
              => (RobotsLookedUp(skipLog[i].url) /\ RobotsAllows(skipLog[i].url))

\* a run whose root is outside the domain allow-list: robots.txt was fetched
\* for it all the same, before the domain check skipped it
C21_Witness ==
    /\ pc = "done"
    /\ robots_reads = 1
    /\ skipLog = <<[url |-> self.root, why |-> "domain"]>>
    /\ ~_check_domain_allowed(self, self.root)

\* number of segments of the path of u, a trailing "/" not counted
Segments(u) ==
    LET path == urlparse(u).path
    IN  Cardinality({i \in 1..(Len(path) - 1) : path[i] = "/" /\ path[i + 1] # "/"})

\* C22 as stated: a previously unseen link discovered on a page that was
\* dequeued at depth d is enqueued with depth d + 1.
C22_ParentPlusOne ==
    [][(LinkStep /\ Enqueues) => q'[Len(q')] = <<abs_url', depth + 1>>]_vars

\* C22, amended: a previously unseen link that is enqueued gets as depth the
\* number of path segments its URL has beyond those of the root (never less
\* than 0), whatever the depth d of the page it was discovered on.
C22_PathDepth ==
    [][(LinkStep /\ Enqueues) =>
          /\ abs_url' \notin self.seen
          /\ q'[Len(q')] = <<abs_url', new_depth'>>
          /\ new_depth' = Max(0, Segments(abs_url') - Segments(self.root))
          /\ self'.url_depths[abs_url'] = new_depth']_vars

\* a link two segments below the root has just been enqueued at depth 2 from
\* the root page, dequeued at depth 0
C22_Witness ==
    /\ pc = "links"
    /\ depth = 0
    /\ new_depth = 2
    /\ q # <<>>
    /\ q[Len(q)] = <<abs_url, 2>>
    /\ enqLog[Len(enqLog)] = abs_url
    /\ Segments(abs_url) = 2

\* the proxy URL the session gets for the k-th element (from 1) of the list
ProxyUrl(k) ==
    LET p == self.proxies[k]
    IN  IF Len(p) >= 3 /\ p[1] \in {"http", "https"} /\ p[2] = ":" /\ p[3] = "//"
        THEN p ELSE <<"http", ":", "//">> \o p

\* position (from 1) in the list of the proxy the i-th fetched entry used
ProxyPos(i) == CHOOSE k \in 1..Len(self.proxies) : ProxyUrl(k) = fetchLog[i].proxy

\* C23: with a non-empty proxy list the proxy is advanced exactly once per
\* entry that reaches the fetch step: consecutive fetched entries use
\* consecutive elements of the list, wrapping from the last to the first; all
\* requests of one entry go out with the proxy assigned to it; a step other
\* than the proxy assignment, a skip by a check among them, changes neither
\* the rotation nor the session's proxy.
C23_ProxyRotation ==
    /\ [](self.proxies # <<>> =>
            /\ \A i \in 1..Len(fetchLog) :
                  \E k \in 1..Len(self.proxies) : fetchLog[i].proxy = ProxyUrl(k)
            /\ \A i \in 1..(Len(fetchLog) - 1) :
                  ProxyPos(i + 1) = (ProxyPos(i) % Len(self.proxies)) + 1
            /\ pc \in {"fetch", "backoff", "append", "callback", "links"} =>
                  self.session_proxies = fetchLog[Len(fetchLog)].proxy)
    /\ [][(self.proxies # <<>> /\ fetchLog' # fetchLog) =>
             /\ Len(fetchLog') = Len(fetchLog) + 1
             /\ self'.current_proxy_index =
                   (self.current_proxy_index + 1) % Len(self.proxies)]_vars
    /\ [][fetchLog' = fetchLog =>
             /\ self'.current_proxy_index = self.current_proxy_index
             /\ self'.session_proxies = self.session_proxies]_vars

\* three proxies: the fourth fetched entry went out through the proxy of the
\* first, an entry in between was retried and another was blocked by robots
C23_Witness ==
    /\ Len(self.proxies) = 3
    /\ Len(fetchLog) >= 4
    /\ fetchLog[4].proxy = fetchLog[1].proxy
    /\ fetchLog[2].proxy # fetchLog[1].proxy
    /\ \E i \in 1..Len(skipLog) : skipLog[i].why = "robots"
    /\ \E i \in 1..Len(skipLog) : skipLog[i].why = "fetch"
    /\ pc = "done"

\* C30: with a proxy list of length n >= 1 the first page fetch of a run goes
\* out through the first proxy of the list: the k-th fetched entry
\* (k = 0, 1, ...) uses the proxy at index k mod n.
C30_FirstProxyFirst ==
    self.proxies # <<>> =>
        \A i \in 1..Len(fetchLog) :
            fetchLog[i].proxy = ProxyUrl(((i - 1) % Len(self.proxies)) + 1)

\* the record of the current entry is appended and its delay not yet slept
RecordInHand == pc \in {"callback", "links"}

\* C24: the inter-request delay is slept exactly once for each entry that
\* yields a record, after the last link of its page was examined and before
\* the next dequeue, and never for an entry that is skipped (depth, robots,
\* filters, fetch failure): the number of delays equals the number of
\* records whose link loop is over, a skip adds none, and at each dequeue
\* every record so far has had its delay.
C24_DelayPerRecord ==
    /\ [](delays = Len(self.rows) - (IF RecordInHand THEN 1 ELSE 0))
    /\ [][delays' # delays =>
             /\ delays' = delays + 1
             /\ pc = "links" /\ links = <<>>
             /\ pc' = "loop"
             /\ q' = q /\ self' = self]_vars
    /\ [][SkipStep => delays' = delays]_vars
    /\ [][deqLog' # deqLog => delays = Len(self.rows)]_vars
    /\ [](\A i \in 1..Len(skipLog) :
            skipLog[i].url \notin SeqToSet(RowUrls))

\* two entries in a row were skipped (a failing page, then a page robots
\* blocks) with no delay between them, between records that each had theirs
C24_Witness ==
    /\ Len(skipLog) >= 2
    /\ delays = Len(self.rows)
    /\ delays >= 2
    /\ pc = "done"
    /\ \E i \in 1..(Len(deqLog) - 1) :
          /\ \E j \in 1..(Len(skipLog) - 1) :
                skipLog[j].url = deqLog[i] /\ skipLog[j + 1].url = deqLog[i + 1]
          /\ \E k \in 1..Len(self.rows) : Pos(deqLog, self.rows[k].url) > i + 1

\* the keywords reject the root: it holds an exclude keyword, or there are
\* include keywords and it holds none
KeywordsRejectRoot ==
    \/ \E i \in 1..Len(self.exclude_keywords) : Mentions(self.root, self.exclude_keywords[i])
    \/ /\ self.include_keywords # <<>>
       /\ \A i \in 1..Len(self.include_keywords) :
             ~Mentions(self.root, self.include_keywords[i])

\* the root fails a dequeue-time check other than the depth limit
RootRejected ==
    \/ ~RobotsAllows(self.root)
    \/ ~_check_domain_allowed(self, self.root)
    \/ ~_check_link_filter(self, self.root)
    \/ KeywordsRejectRoot

\* C28: the root gets no exemption from the dequeue-time checks: when the
\* root fails the robots check, the domain allow-list, the path/extension
\* filter or the keyword filter, the run makes no page fetch and emits no
\* record, the root is the only entry ever enqueued and is skipped, and an
\* uncancelled run that has reported its end shows "Done".
C28_RootNotExempt ==
    RootRejected =>
        /\ fetchLog = <<>>
        /\ requests = 0
        /\ self.rows = <<>>
        /\ callbacks = <<>>
        /\ Len(enqLog) <= 1
        /\ pc \in {"start", "loop", "get", "depth", "robots", "domain", "filter",
                  "keyword", "done"}
        /\ (pc = "done" /\ ~self.cancelled) =>
              /\ Len(skipLog) = 1
              /\ skipLog[1].url = self.root
              /\ skipLog[1].why \in {"robots", "domain", "filter", "keyword"}
        /\ (app.reports # <<>> /\ ~self.cancelled) => var_status = "Done"

\* a run whose root holds none of the include keywords has ended "Done"
\* with the root skipped by the keyword filter and nothing fetched
C28_Witness ==
    /\ KeywordsRejectRoot
    /\ pc = "done"
    /\ var_status = "Done"
    /\ skipLog = <<[url |-> self.root, why |-> "keyword"]>>
    /\ fetchLog = <<>>
    /\ self.rows = <<>>

\* u is the root, with or without its trailing slash
IsRootPage(u) == u = self.root \/ u = self.root \o <<"/">>

\* C29: the root page is enqueued and fetched at most once per run, also when
\* the root was given with a trailing slash: a link that resolves to the root
\* with its trailing slash is treated as already seen and is not enqueued.
C29_RootOnce ==
    /\ Cardinality({i \in 1..Len(enqLog) : IsRootPage(enqLog[i])}) <= 1
    /\ Cardinality({i \in 1..Len(fetchLog) : IsRootPage(fetchLog[i].url)}) <= 1

\* the App shows its first crawl, and Clear has not been pressed since it
\* started
SingleCrawl == app.spider = "this" /\ ~self.cancelled

\* C25: during a single crawl with no sort, load or clear the App's row list
\* is always a prefix of the spider's record sequence: under every
\* interleaving of the crawl thread and the drain, the i-th row the drain
\* adds is the i-th record the spider emitted.
C25_RowsPrefix ==
    SingleCrawl => IsPrefix(app.rows, self.rows)

\* Clear was pressed while the crawl thread of the first crawl was running,
\* and no crawl was started since
ClearedWhileRunning ==
    /\ app.spider = "this"
    /\ self.cancelled
    /\ atCancel.pc \notin {"", "done"}

\* C26: after Clear is invoked while a crawl is running, the App's row list
\* stays empty until a new crawl is started: no record of the cancelled run,
\* waiting in the preview queue or emitted after the cancel, is added to it.
C26_ClearedStaysEmpty ==
    ClearedWhileRunning => app.rows = <<>>

\* the crawl loop of the first crawl is running and was not cancelled
FirstLoopRunning == pc \notin {"idle", "done"} /\ ~self.cancelled

\* C27: at most one crawl run started by the App is active: Create Sitemap
\* while a crawl thread is running does not leave two crawl loops running
\* (the earlier run is refused, cancelled or finished), and every item
\* waiting in the preview queue belongs to the spider the App references.
C27_OneCrawlAtATime ==
    /\ ~(FirstLoopRunning /\ app.later.alive)
    /\ app.spider = "later" =>
          \A i \in 1..Len(app.queue_preview) :
              app.queue_preview[i].title = <<"later">>
====
